---------------------------- MODULE Spec2Model ----------------------------
(***************************************************************************)
(* Model of petpal's pre-processing steps (pipelines/preproc_steps.py) and *)
(* of the BIDS naming helpers they use (utils/bids_utils.py).              *)
(*                                                                         *)
(* A Python str is a sequence of one-character strings, so that split,     *)
(* join, capitalize, os.path.join and pathlib's name are computed and not  *)
(* assumed.  A Python object stored in an argument mapping is a record     *)
(* [t |-> type tag, v |-> text of the value].                              *)
(***************************************************************************)
EXTENDS Integers, Sequences, FiniteSets, TLC

VARIABLES step, sender, last, raised, warned, call, trace, heap

vars == <<step, sender, last, raised, warned, call, trace, heap>>

----------------------------------------------------------------------------
(* String literals of the source.                                          *)

EmptyStr == << >>
S_us == <<"_">>
S_dash == <<"-">>
S_sep == <<"/">>
S_dot == <<".">>
S_sub == <<"s", "u", "b", "-">>
S_ses == <<"s", "e", "s", "-">>
S_XXXX == <<"X", "X", "X", "X">>
S_XX == <<"X", "X">>
S_pet == <<"p", "e", "t">>
S_niigz == <<".", "n", "i", "i", ".", "g", "z">>
S_blood == <<"b", "l", "o", "o", "d">>
S_tsv == <<".", "t", "s", "v">>
S_preproc == <<"p", "r", "e", "p", "r", "o", "c">>
S_tacs == <<"t", "a", "c", "s">>
S_desc == <<"d", "e", "s", "c">>
S_thresh_crop == <<"t", "h", "r", "e", "s", "h", "_", "c", "r", "o", "p">>
S_moco_frames_above_mean == <<"m", "o", "c", "o", "_", "f", "r", "a", "m", "e", "s", "_", "a", "b", "o", "v", "e", "_", "m", "e", "a", "n">>
S_windowed_moco == <<"w", "i", "n", "d", "o", "w", "e", "d", "_", "m", "o", "c", "o">>
S_register_pet_to_t1 == <<"r", "e", "g", "i", "s", "t", "e", "r", "_", "p", "e", "t", "_", "t", "o", "_", "t", "1">>
S_write_roi_tacs == <<"w", "r", "i", "t", "e", "_", "r", "o", "i", "_", "t", "a", "c", "s">>
S_resample_PTAC_on_scanner == <<"r", "e", "s", "a", "m", "p", "l", "e", "_", "P", "T", "A", "C", "_", "o", "n", "_", "s", "c", "a", "n", "n", "e", "r">>
S_mean_image == <<"m", "e", "a", "n", "_", "i", "m", "a", "g", "e">>
S_weighted_series_sum == <<"w", "e", "i", "g", "h", "t", "e", "d", "_", "s", "e", "r", "i", "e", "s", "_", "s", "u", "m">>
S_FrameReferenceTime == <<"F", "r", "a", "m", "e", "R", "e", "f", "e", "r", "e", "n", "c", "e", "T", "i", "m", "e">>
S_True == <<"T", "r", "u", "e">>
S_False == <<"F", "a", "l", "s", "e">>
S_None == <<"N", "o", "n", "e">>
S_60 == <<"6", "0", ".", "0">>
S_30 == <<"3", "0", ".", "0">>
S_37000 == <<"3", "7", "0", "0", "0", ".", "0">>
S_sub_id == <<"s", "u", "b", "_", "i", "d">>
S_ses_id == <<"s", "e", "s", "_", "i", "d">>
S_bids_dir == <<"b", "i", "d", "s", "_", "d", "i", "r">>
S_modality == <<"m", "o", "d", "a", "l", "i", "t", "y">>
S_OnScannerFrameTimes == <<"O", "n", "S", "c", "a", "n", "n", "e", "r", "F", "r", "a", "m", "e", "T", "i", "m", "e", "s">>

----------------------------------------------------------------------------
(* Python's str and path primitives, as the helpers below use them.        *)

LowerChars == <<"a","b","c","d","e","f","g","h","i","j","k","l","m",
                "n","o","p","q","r","s","t","u","v","w","x","y","z">>
UpperChars == <<"A","B","C","D","E","F","G","H","I","J","K","L","M",
                "N","O","P","Q","R","S","T","U","V","W","X","Y","Z">>

char_lower(c) ==
    IF \E i \in 1..Len(UpperChars) : UpperChars[i] = c
    THEN LowerChars[CHOOSE i \in 1..Len(UpperChars) : UpperChars[i] = c]
    ELSE c

char_upper(c) ==
    IF \E i \in 1..Len(LowerChars) : LowerChars[i] = c
    THEN UpperChars[CHOOSE i \in 1..Len(LowerChars) : LowerChars[i] = c]
    ELSE c

\* str.lower()
str_lower(s) == [i \in 1..Len(s) |-> char_lower(s[i])]

\* str.capitalize(): first character upper-cased, the rest lower-cased
str_capitalize(s) ==
    [i \in 1..Len(s) |-> IF i = 1 THEN char_upper(s[i]) ELSE char_lower(s[i])]

\* index of the first occurrence of the non-empty sub in s, 0 when absent
str_find(s, sub) ==
    LET hits == {i \in 1..(Len(s) - Len(sub) + 1) : SubSeq(s, i, i + Len(sub) - 1) = sub}
    IN  IF hits = {} THEN 0 ELSE CHOOSE i \in hits : \A j \in hits : i <= j

\* sub in s
str_contains(s, sub) == str_find(s, sub) # 0

str_startswith(s, pre) == Len(s) >= Len(pre) /\ SubSeq(s, 1, Len(pre)) = pre

str_endswith(s, post) ==
    Len(s) >= Len(post) /\ SubSeq(s, Len(s) - Len(post) + 1, Len(s)) = post

\* s.split(sep): the list of the pieces between the occurrences of sep
RECURSIVE str_split(_, _)
str_split(s, sep) ==
    LET i == str_find(s, sep)
    IN  IF i = 0 THEN <<s>>
        ELSE <<SubSeq(s, 1, i - 1)>> \o str_split(SubSeq(s, i + Len(sep), Len(s)), sep)

\* sep.join(parts)
RECURSIVE str_join(_, _)
str_join(sep, parts) ==
    IF Len(parts) = 0 THEN EmptyStr
    ELSE IF Len(parts) = 1 THEN parts[1]
    ELSE parts[1] \o sep \o str_join(sep, Tail(parts))

\* "".join(parts)
str_concat(parts) == str_join(EmptyStr, parts)

\* os.path.join(*parts) on a POSIX system
RECURSIVE os_path_join_from(_, _)
os_path_join_from(path, rest) ==
    IF Len(rest) = 0 THEN path
    ELSE LET b == Head(rest)
             joined == IF str_startswith(b, S_sep) THEN b
                       ELSE IF path = EmptyStr \/ str_endswith(path, S_sep) THEN path \o b
                       ELSE path \o S_sep \o b
         IN  os_path_join_from(joined, Tail(rest))

os_path_join(parts) == os_path_join_from(Head(parts), Tail(parts))

\* lst[:n]: the first n items, or all of them when there are fewer
list_head(lst, n) == SubSeq(lst, 1, IF Len(lst) < n THEN Len(lst) ELSE n)

\* pathlib.Path(path).name: the last component, where empty and "."
\* components do not count; "" when there is none
pathlib_name(path) ==
    LET comps == SelectSeq(str_split(path, S_sep), LAMBDA c : c # EmptyStr /\ c # S_dot)
    IN  IF Len(comps) = 0 THEN EmptyStr ELSE comps[Len(comps)]

----------------------------------------------------------------------------
(* utils/bids_utils.py                                                     *)

\* The result of a call: what was raised, and the value returned if nothing was.
Returned(v) == [raised |-> "none", value |-> v]
Raised(e) == [raised |-> e, value |-> << >>]

\* A parser without the guard on the two markers: it always splits the name.
Mutant_parse_without_guard(path) ==
    LET parts == str_split(pathlib_name(path), S_us)
        sub_ses_ids == list_head(parts, 2)
        sub_parts == str_split(sub_ses_ids[1], S_sub)
    IN  IF Len(sub_ses_ids) < 2 THEN Raised("IndexError")
        ELSE LET ses_parts == str_split(sub_ses_ids[2], S_ses)
             IN  Returned(<<sub_parts[Len(sub_parts)], ses_parts[Len(ses_parts)]>>)

parse_path_to_get_subject_and_session_id(path) ==
    LET filename == pathlib_name(path)
    IN  IF str_contains(filename, S_sub) /\ str_contains(filename, S_ses)
        THEN LET parts == str_split(filename, S_us)
                 sub_ses_ids == list_head(parts, 2)
                 sub_parts == str_split(sub_ses_ids[1], S_sub)
             IN  IF Len(sub_ses_ids) < 2 THEN Raised("IndexError")
                 ELSE LET ses_parts == str_split(sub_ses_ids[2], S_ses)
                      IN  Returned(<<sub_parts[Len(sub_parts)], ses_parts[Len(ses_parts)]>>)
        ELSE Returned(<<S_XXXX, S_XX>>)

snake_to_camel_case(snake_str) ==
    LET segs == str_split(str_lower(snake_str), S_us)
    IN  str_concat([i \in 1..Len(segs) |-> str_capitalize(segs[i])])

\* extra_desc is the keyword mapping in insertion order: a sequence of <<name, val>>
\* A file name that puts the session token before the subject token.
Mutant_filename_session_first(sub_id, ses_id, suffix, ext, extra_desc) ==
    LET sub_ses_pre == S_ses \o ses_id \o S_us \o S_sub \o sub_id
        desc_parts == [i \in 1..Len(extra_desc) |->
                          extra_desc[i][1] \o S_dash \o extra_desc[i][2]]
        file_parts == <<sub_ses_pre>> \o desc_parts \o <<suffix \o ext>>
    IN  str_join(S_us, file_parts)

gen_bids_like_filename(sub_id, ses_id, suffix, ext, extra_desc) ==
    LET sub_ses_pre == S_sub \o sub_id \o S_us \o S_ses \o ses_id
        desc_parts == [i \in 1..Len(extra_desc) |->
                          extra_desc[i][1] \o S_dash \o extra_desc[i][2]]
        file_parts == <<sub_ses_pre>> \o desc_parts \o <<suffix \o ext>>
    IN  str_join(S_us, file_parts)

gen_bids_like_dir_path(sub_id, ses_id, modality, sup_dir) ==
    LET path_parts == <<sup_dir, S_sub \o sub_id, S_ses \o ses_id, modality>>
    IN  os_path_join(path_parts)

\* A file path whose descriptors come out in the reverse of the order given.
Mutant_filepath_descriptors_reversed(sub_id, ses_id, bids_dir, modality, suffix, ext, extra_desc) ==
    LET n == Len(extra_desc)
        filename == gen_bids_like_filename(sub_id, ses_id, suffix, ext,
                        [i \in 1..n |-> extra_desc[n + 1 - i]])
        filedir == gen_bids_like_dir_path(sub_id, ses_id, modality, bids_dir)
    IN  os_path_join(<<filedir, filename>>)

gen_bids_like_filepath(sub_id, ses_id, bids_dir, modality, suffix, ext, extra_desc) ==
    LET filename == gen_bids_like_filename(sub_id, ses_id, suffix, ext, extra_desc)
        filedir == gen_bids_like_dir_path(sub_id, ses_id, modality, bids_dir)
    IN  os_path_join(<<filedir, filename>>)

----------------------------------------------------------------------------
(* Python values held in a step's positional and keyword arguments.        *)

PyStr(s) == [t |-> "str", v |-> s]
PyBool(b) == [t |-> "bool", v |-> IF b THEN S_True ELSE S_False]
PyFloat(txt) == [t |-> "float", v |-> txt]
PyNone == [t |-> "NoneType", v |-> S_None]
PyFunc(f) == [t |-> "function", v |-> <<f>>]

\* arg == ''
is_empty_str(arg) == arg.t = "str" /\ arg.v = EmptyStr

\* {**a, **b}
dict_merge(a, b) ==
    [k \in (DOMAIN a) \cup (DOMAIN b) |-> IF k \in DOMAIN b THEN b[k] ELSE a[k]]

\* the mapping without the keys in ks
dict_without(d, ks) == [k \in (DOMAIN d) \ ks |-> d[k]]

EmptyDict == [k \in {} |-> PyNone]

----------------------------------------------------------------------------
(* pipelines/steps_base.py: FunctionBasedStep, the base of the typed steps. *)

\* FunctionBasedStep.__init__(name, function, *args, **kwargs): stores its
\* arguments; the function's signature is not validated at construction.
FunctionBasedStep_init(name, function, args, kwargs) ==
    Returned([name |-> name, function |-> function, args |-> args, kwargs |-> kwargs])

\* FunctionBasedStep.can_potentially_run(): no stored positional or keyword
\* argument is the empty string.
FunctionBasedStep_can_potentially_run(self) ==
    /\ \A i \in 1..Len(self.args) : ~is_empty_str(self.args[i])
    /\ \A k \in DOMAIN self.kwargs : ~is_empty_str(self.kwargs[k])

\* FunctionBasedStep.set_input_as_output_from(sending_step): the fallback of
\* the typed steps; it defines no link and signals an error.
FunctionBasedStep_set_input_as_output_from(self, sending_step) ==
    Raised("NotImplementedError")

\* One call that leaves the step: the callee with its positional and keyword
\* arguments.
ExternalCall(callee, args, kwargs) == [callee |-> callee, args |-> args, kwargs |-> kwargs]

\* What an execute has done: the calls it made, in order, and the exception
\* that left it ("none": it returned).
Executed(calls, exception) == [trace |-> calls, raised |-> exception]

\* FunctionBasedStep.execute(): function(*args, **kwargs); what the function
\* raises leaves execute.
FunctionBasedStep_execute(self, function_outcome) ==
    Executed(<<ExternalCall("function", self.args, self.kwargs)>>, function_outcome)

----------------------------------------------------------------------------
(* pipelines/preproc_steps.py: ImageToImageStep                            *)

ImageToImageStep_init(name, function, input_image_path, output_image_path, args, kwargs) ==
    LET sup == FunctionBasedStep_init(name, function,
                   <<PyStr(input_image_path), PyStr(output_image_path)>> \o args, kwargs)
    IN  IF sup.raised # "none" THEN sup
        ELSE Returned([variant |-> "ImageToImageStep",
                       name |-> sup.value.name,
                       function |-> sup.value.function,
                       kwargs |-> sup.value.kwargs,
                       input_image_path |-> sup.value.args[1].v,
                       output_image_path |-> sup.value.args[2].v,
                       args |-> SubSeq(sup.value.args, 3, Len(sup.value.args))])

\* The parameters of ImageToImageStep.__init__ that a keyword can bind.
ImageToImageStep_init_params == {"name", "function", "input_image_path", "output_image_path"}

\* cls(**d): the named parameters are bound from d, the other keys go to **kwargs.
ImageToImageStep_from_keywords(d) ==
    ImageToImageStep_init(d["name"].v, d["function"].v[1], d["input_image_path"].v,
                          d["output_image_path"].v, << >>,
                          dict_without(d, ImageToImageStep_init_params))

\* The body shared by the factory presets: build from the overridden defaults,
\* and on RuntimeError warn and build from the defaults.
preset_try(defaults, overrides) ==
    LET override_dict == dict_merge(defaults, overrides)
        built == ImageToImageStep_from_keywords(override_dict)
    IN  IF built.raised = "RuntimeError"
        THEN [made |-> ImageToImageStep_from_keywords(defaults), warned |-> TRUE]
        ELSE [made |-> built, warned |-> FALSE]

default_threshold_cropping(overrides) ==
    LET defaults == [name |-> PyStr(S_thresh_crop),
                     function |-> PyFunc("SimpleAutoImageCropper"),
                     input_image_path |-> PyStr(EmptyStr),
                     output_image_path |-> PyStr(EmptyStr)]
    IN  preset_try(defaults, overrides)

default_moco_frames_above_mean(verbose, overrides) ==
    LET defaults == [name |-> PyStr(S_moco_frames_above_mean),
                     function |-> PyFunc("motion_corr_frames_above_mean_value"),
                     input_image_path |-> PyStr(EmptyStr),
                     output_image_path |-> PyStr(EmptyStr),
                     motion_target_option |-> PyStr(S_mean_image),
                     verbose |-> verbose,
                     half_life |-> PyNone]
    IN  preset_try(defaults, overrides)

default_windowed_moco(verbose, overrides) ==
    LET defaults == [name |-> PyStr(S_windowed_moco),
                     function |-> PyFunc("windowed_motion_corr_to_target"),
                     input_image_path |-> PyStr(EmptyStr),
                     output_image_path |-> PyStr(EmptyStr),
                     motion_target_option |-> PyStr(S_weighted_series_sum),
                     w_size |-> PyFloat(S_60),
                     verbose |-> verbose]
    IN  preset_try(defaults, overrides)

default_register_pet_to_t1(reference_image_path, half_life, verbose, overrides) ==
    LET defaults == [name |-> PyStr(S_register_pet_to_t1),
                     function |-> PyFunc("register_pet"),
                     input_image_path |-> PyStr(EmptyStr),
                     output_image_path |-> PyStr(EmptyStr),
                     reference_image_path |-> reference_image_path,
                     motion_target_option |-> PyStr(S_weighted_series_sum),
                     verbose |-> verbose,
                     half_life |-> half_life]
    IN  preset_try(defaults, overrides)

\* self.function(self.input_image_path, self.output_image_path, *self.args, **self.kwargs)
ImageToImageStep_function_call(self) ==
    ExternalCall("function",
                 <<PyStr(self.input_image_path), PyStr(self.output_image_path)>> \o self.args,
                 self.kwargs)

\* safe_copy_meta(input_image_path=self.input_image_path, out_image_path=self.output_image_path)
ImageToImageStep_copy_call(self) ==
    ExternalCall("safe_copy_meta", << >>,
                 [input_image_path |-> PyStr(self.input_image_path),
                  out_image_path |-> PyStr(self.output_image_path)])

\* An execute that copies the metadata before it runs the function.
Mutant_execute_copies_first(self, copy_meta_file, function_outcome, copy_outcome) ==
    IF copy_meta_file /\ copy_outcome # "none"
    THEN Executed(<<ImageToImageStep_copy_call(self)>>, copy_outcome)
    ELSE Executed((IF copy_meta_file THEN <<ImageToImageStep_copy_call(self)>> ELSE << >>)
                      \o <<ImageToImageStep_function_call(self)>>,
                  function_outcome)

\* An execute that runs the function a second time when it has raised.
Mutant_execute_retries(self, copy_meta_file, function_outcome, copy_outcome) ==
    IF function_outcome # "none"
    THEN Executed(<<ImageToImageStep_function_call(self),
                    ImageToImageStep_function_call(self)>>, function_outcome)
    ELSE IF copy_meta_file
         THEN Executed(<<ImageToImageStep_function_call(self),
                         ImageToImageStep_copy_call(self)>>, copy_outcome)
         ELSE Executed(<<ImageToImageStep_function_call(self)>>, "none")

\* An execute that passes the stored arguments without the two paths in front.
Mutant_execute_without_paths(self, copy_meta_file, function_outcome, copy_outcome) ==
    LET function_call == ExternalCall("function", self.args, self.kwargs)
    IN  IF function_outcome # "none"
        THEN Executed(<<function_call>>, function_outcome)
        ELSE IF copy_meta_file
             THEN Executed(<<function_call, ImageToImageStep_copy_call(self)>>, copy_outcome)
             ELSE Executed(<<function_call>>, "none")

\* An execute that refuses to run while a path is empty.
Mutant_execute_gated(self, copy_meta_file, function_outcome, copy_outcome) ==
    IF self.input_image_path = EmptyStr \/ self.output_image_path = EmptyStr
    THEN Executed(<< >>, "RuntimeError")
    ELSE IF function_outcome # "none"
         THEN Executed(<<ImageToImageStep_function_call(self)>>, function_outcome)
         ELSE IF copy_meta_file
              THEN Executed(<<ImageToImageStep_function_call(self),
                              ImageToImageStep_copy_call(self)>>, copy_outcome)
              ELSE Executed(<<ImageToImageStep_function_call(self)>>, "none")

\* ImageToImageStep.execute(copy_meta_file): the function is called; when it
\* raises, that leaves execute; otherwise the metadata is copied if asked for.
ImageToImageStep_execute(self, copy_meta_file, function_outcome, copy_outcome) ==
    IF function_outcome # "none"
    THEN Executed(<<ImageToImageStep_function_call(self)>>, function_outcome)
    ELSE IF copy_meta_file
         THEN Executed(<<ImageToImageStep_function_call(self),
                         ImageToImageStep_copy_call(self)>>, copy_outcome)
         ELSE Executed(<<ImageToImageStep_function_call(self)>>, "none")

\* self.input_image_path = value, self.output_image_path = value: plain attributes
ImageToImageStep_set_input_image_path(self, value) ==
    [self EXCEPT !.input_image_path = value]

ImageToImageStep_set_output_image_path(self, value) ==
    [self EXCEPT !.output_image_path = value]

\* A link that copies the sender's input path instead of its output path.
Mutant_link_copies_sender_input(self, sending_step) ==
    Returned(ImageToImageStep_set_input_image_path(self, sending_step.input_image_path))

\* A link that leaves the step as it is when the predecessor is of another
\* variant, and returns.
Mutant_link_ignores_other_variants(self, sending_step) ==
    IF sending_step.variant = "ImageToImageStep"
    THEN Returned(ImageToImageStep_set_input_image_path(self,
                      sending_step.output_image_path))
    ELSE Returned(self)

ImageToImageStep_set_input_as_output_from(self, sending_step) ==
    IF sending_step.variant = "ImageToImageStep"
    THEN Returned(ImageToImageStep_set_input_image_path(self, sending_step.output_image_path))
    ELSE FunctionBasedStep_set_input_as_output_from(self, sending_step)

\* A readiness check that forgets the output image path.
Mutant_can_run_ignores_output(self) ==
    FunctionBasedStep_can_potentially_run(self) /\ self.input_image_path # EmptyStr

ImageToImageStep_can_potentially_run(self) ==
    LET input_img_non_empty_str == IF self.input_image_path = EmptyStr THEN FALSE ELSE TRUE
        output_img_non_empty_str == IF self.output_image_path = EmptyStr THEN FALSE ELSE TRUE
    IN  /\ FunctionBasedStep_can_potentially_run(self)
        /\ input_img_non_empty_str
        /\ output_img_non_empty_str

\* The keyword names of gen_bids_like_filepath that the call in
\* infer_outputs_from_inputs passes itself and that **extra_desc can repeat
\* (out_dir, der_type, suffix and ext are parameters of the method and never
\* reach extra_desc).
\* An inference that hands the session identifier over as the subject and the
\* subject identifier as the session.
Mutant_image_infer_swaps_ids(self, out_dir, der_type, suffix, ext, extra_desc) ==
    LET ids == parse_path_to_get_subject_and_session_id(self.input_image_path)
        step_name_in_camel_case == snake_to_camel_case(self.name)
    IN  IF ids.raised # "none" THEN ids
        ELSE IF \E i \in 1..Len(extra_desc) :
                    extra_desc[i][1] \in {S_sub_id, S_ses_id, S_bids_dir, S_modality, S_desc}
        THEN Raised("TypeError")
        ELSE LET filepath == gen_bids_like_filepath(ids.value[2], ids.value[1], out_dir,
                                 der_type, suffix, ext,
                                 <<<<S_desc, step_name_in_camel_case>>>> \o extra_desc)
             IN  Returned(ImageToImageStep_set_output_image_path(self, filepath))

\* An inference that fills the output path in only when none is set.
Mutant_image_infer_keeps_set_output(self, out_dir, der_type, suffix, ext, extra_desc) ==
    LET ids == parse_path_to_get_subject_and_session_id(self.input_image_path)
        step_name_in_camel_case == snake_to_camel_case(self.name)
    IN  IF ids.raised # "none" THEN ids
        ELSE IF \E i \in 1..Len(extra_desc) :
                    extra_desc[i][1] \in {S_sub_id, S_ses_id, S_bids_dir, S_modality, S_desc}
        THEN Raised("TypeError")
        ELSE LET filepath == gen_bids_like_filepath(ids.value[1], ids.value[2], out_dir,
                                 der_type, suffix, ext,
                                 <<<<S_desc, step_name_in_camel_case>>>> \o extra_desc)
             IN  IF self.output_image_path # EmptyStr THEN Returned(self)
                 ELSE Returned(ImageToImageStep_set_output_image_path(self, filepath))

ImageToImageStep_infer_passed_keywords == {S_sub_id, S_ses_id, S_bids_dir, S_modality, S_desc}

ImageToImageStep_infer_outputs_from_inputs(self, out_dir, der_type, suffix, ext, extra_desc) ==
    LET ids == parse_path_to_get_subject_and_session_id(self.input_image_path)
        step_name_in_camel_case == snake_to_camel_case(self.name)
    IN  IF ids.raised # "none" THEN ids
        ELSE IF \E i \in 1..Len(extra_desc) :
                    extra_desc[i][1] \in ImageToImageStep_infer_passed_keywords
        THEN Raised("TypeError")
        ELSE LET filepath == gen_bids_like_filepath(ids.value[1], ids.value[2], out_dir,
                                 der_type, suffix, ext,
                                 <<<<S_desc, step_name_in_camel_case>>>> \o extra_desc)
             IN  Returned(ImageToImageStep_set_output_image_path(self, filepath))

----------------------------------------------------------------------------
(* pipelines/preproc_steps.py: TACsFromSegmentationStep                    *)

TACsFromSegmentationStep_init(input_image_path, segmentation_image_path, segmentation_label_map_path, out_tacs_dir, out_tacs_prefix, time_keyword, verbose) ==
    LET sup == FunctionBasedStep_init(S_write_roi_tacs, "write_tacs", << >>,
                   [input_image_path |-> PyStr(input_image_path),
                    segmentation_image_path |-> PyStr(segmentation_image_path),
                    label_map_path |-> PyStr(segmentation_label_map_path),
                    out_tac_dir |-> PyStr(out_tacs_dir),
                    out_tac_prefix |-> PyStr(out_tacs_prefix),
                    time_frame_keyword |-> time_keyword,
                    verbose |-> verbose])
    IN  IF sup.raised # "none" THEN sup
        ELSE Returned([variant |-> "TACsFromSegmentationStep",
                       name |-> sup.value.name,
                       function |-> sup.value.function,
                       args |-> sup.value.args,
                       kwargs |-> sup.value.kwargs,
                       _input_image |-> input_image_path,
                       _segmentation_image |-> segmentation_image_path,
                       _segmentation_label_map |-> segmentation_label_map_path,
                       _out_tacs_path |-> out_tacs_dir,
                       _out_tacs_prefix |-> out_tacs_prefix,
                       time_keyword |-> time_keyword,
                       verbose |-> verbose])

TACsFromSegmentationStep_set_segmentation_image_path(self, segmentation_image_path) ==
    [self EXCEPT !._segmentation_image = segmentation_image_path,
                 !.kwargs["segmentation_image_path"] = PyStr(segmentation_image_path)]

\* A label-map setter that writes the segmentation image's keyword entry.
Mutant_label_map_writes_segmentation_entry(self, segmentation_label_map_path) ==
    [self EXCEPT !._segmentation_label_map = segmentation_label_map_path,
                 !.kwargs["segmentation_image_path"] = PyStr(segmentation_label_map_path)]

TACsFromSegmentationStep_set_segmentation_label_map_path(self, segmentation_label_map_path) ==
    [self EXCEPT !._segmentation_label_map = segmentation_label_map_path,
                 !.kwargs["label_map_path"] = PyStr(segmentation_label_map_path)]

TACsFromSegmentationStep_set_out_tacs_dir(self, out_tacs_path) ==
    [self EXCEPT !.kwargs["out_tac_dir"] = PyStr(out_tacs_path),
                 !._out_tacs_path = out_tacs_path]

TACsFromSegmentationStep_set_out_tacs_prefix(self, out_tacs_prefix) ==
    [self EXCEPT !.kwargs["out_tac_prefix"] = PyStr(out_tacs_prefix),
                 !._out_tacs_prefix = out_tacs_prefix]

\* a tuple and a list of strings
PyTuple(items) == [t |-> "tuple", v |-> items]
PyList(items) == [t |-> "list", v |-> items]

\* out_dir, out_prefix = value: the items the two names are bound to.  A str
\* is iterated character by character; a value that cannot be iterated raises
\* TypeError, an iterable with another number of items ValueError.
unpack_two(value) ==
    IF value.t \notin {"tuple", "list", "str"} THEN Raised("TypeError")
    ELSE LET items == IF value.t = "str"
                      THEN [i \in 1..Len(value.v) |-> <<value.v[i]>>]
                      ELSE value.v
         IN  IF Len(items) # 2 THEN Raised("ValueError") ELSE Returned(items)

\* self.out_path_and_prefix = out_dir_and_prefix: a ValueError of the
\* unpacking is raised again as ValueError, any other exception leaves as it is.
TACsFromSegmentationStep_set_out_path_and_prefix(self, out_dir_and_prefix) ==
    LET unpacked == unpack_two(out_dir_and_prefix)
    IN  IF unpacked.raised = "ValueError" THEN Raised("ValueError")
        ELSE IF unpacked.raised # "none" THEN unpacked
        ELSE Returned(TACsFromSegmentationStep_set_out_tacs_prefix(
                          TACsFromSegmentationStep_set_out_tacs_dir(self, unpacked.value[1]),
                          unpacked.value[2]))

TACsFromSegmentationStep_set_input_image_path(self, input_image_path) ==
    [self EXCEPT !.kwargs["input_image_path"] = PyStr(input_image_path),
                 !._input_image = input_image_path]

\* A link that also points the segmentation at the predecessor's output.
Mutant_tacs_link_sets_segmentation(self, sending_step) ==
    IF sending_step.variant = "ImageToImageStep"
    THEN Returned(TACsFromSegmentationStep_set_segmentation_image_path(
                      TACsFromSegmentationStep_set_input_image_path(self,
                          sending_step.output_image_path),
                      sending_step.output_image_path))
    ELSE FunctionBasedStep_set_input_as_output_from(self, sending_step)

TACsFromSegmentationStep_set_input_as_output_from(self, sending_step) ==
    IF sending_step.variant = "ImageToImageStep"
    THEN Returned(TACsFromSegmentationStep_set_input_image_path(self,
                      sending_step.output_image_path))
    ELSE FunctionBasedStep_set_input_as_output_from(self, sending_step)

\* An inference that reads the identifiers from the segmentation image path.
Mutant_tacs_infer_from_segmentation(self, out_dir, der_type, suffix, ext, extra_desc) ==
    LET ids == parse_path_to_get_subject_and_session_id(self._segmentation_image)
    IN  IF ids.raised # "none" THEN ids
        ELSE LET sub_id == ids.value[1]
                 ses_id == ids.value[2]
                 outpath == gen_bids_like_dir_path(sub_id, ses_id, S_tacs, out_dir)
                 with_dir == TACsFromSegmentationStep_set_out_tacs_dir(self, outpath)
                 step_name_in_camel_case == snake_to_camel_case(self.name)
             IN  Returned(TACsFromSegmentationStep_set_out_tacs_prefix(with_dir,
                     S_sub \o sub_id \o S_us \o S_ses \o ses_id \o S_us \o S_desc
                           \o S_dash \o step_name_in_camel_case))

TACsFromSegmentationStep_infer_outputs_from_inputs(self, out_dir, der_type, suffix, ext, extra_desc) ==
    LET ids == parse_path_to_get_subject_and_session_id(self._input_image)
    IN  IF ids.raised # "none" THEN ids
        ELSE LET sub_id == ids.value[1]
                 ses_id == ids.value[2]
                 outpath == gen_bids_like_dir_path(sub_id, ses_id, S_tacs, out_dir)
                 with_dir == TACsFromSegmentationStep_set_out_tacs_dir(self, outpath)
                 step_name_in_camel_case == snake_to_camel_case(self.name)
             IN  Returned(TACsFromSegmentationStep_set_out_tacs_prefix(with_dir,
                     S_sub \o sub_id \o S_us \o S_ses \o ses_id \o S_us \o S_desc
                           \o S_dash \o step_name_in_camel_case))

\* TACsFromSegmentationStep.__repr__(): the name=value pairs it lists
TACsFromSegmentationStep_repr(self) ==
    [input_image_path |-> PyStr(self._input_image),
     segmentation_image_path |-> PyStr(self._segmentation_image),
     segmentation_label_map_path |-> PyStr(self._segmentation_label_map),
     out_tacs_dir |-> PyStr(self._out_tacs_path),
     out_tacs_prefix |-> PyStr(self._out_tacs_prefix),
     time_keyword |-> self.time_keyword,
     verbose |-> self.verbose]

\* TACsFromSegmentationStep(**pairs)
TACsFromSegmentationStep_from_keywords(d) ==
    TACsFromSegmentationStep_init(d.input_image_path.v, d.segmentation_image_path.v,
                                  d.segmentation_label_map_path.v, d.out_tacs_dir.v,
                                  d.out_tacs_prefix.v, d.time_keyword, d.verbose)

default_write_tacs_from_segmentation_rois ==
    TACsFromSegmentationStep_init(EmptyStr, EmptyStr, EmptyStr, EmptyStr, EmptyStr,
                                  PyStr(S_FrameReferenceTime), PyBool(FALSE))

----------------------------------------------------------------------------
(* pipelines/preproc_steps.py: ResampleBloodTACStep                        *)

ResampleBloodTACStep_init(input_raw_blood_tac_path, input_image_path, out_tac_path, lin_fit_thresh_in_mins, rescale_constant) ==
    LET sup == FunctionBasedStep_init(S_resample_PTAC_on_scanner,
                   "resample_blood_data_on_scanner_times", << >>,
                   [blood_tac_path |-> PyStr(input_raw_blood_tac_path),
                    reference_4dpet_img_path |-> PyStr(input_image_path),
                    out_tac_path |-> PyStr(out_tac_path),
                    lin_fit_thresh_in_mins |-> lin_fit_thresh_in_mins,
                    rescale_constant |-> rescale_constant])
    IN  IF sup.raised # "none" THEN sup
        ELSE Returned([variant |-> "ResampleBloodTACStep",
                       name |-> sup.value.name,
                       function |-> sup.value.function,
                       args |-> sup.value.args,
                       kwargs |-> sup.value.kwargs,
                       _raw_blood_tac_path |-> input_raw_blood_tac_path,
                       _input_image_path |-> input_image_path,
                       _resampled_tac_path |-> out_tac_path,
                       lin_fit_thresh_in_mins |-> lin_fit_thresh_in_mins,
                       rescale_constant |-> rescale_constant])

ResampleBloodTACStep_set_raw_blood_tac_path(self, raw_blood_tac_path) ==
    [self EXCEPT !.kwargs["blood_tac_path"] = PyStr(raw_blood_tac_path),
                 !._raw_blood_tac_path = raw_blood_tac_path]

ResampleBloodTACStep_set_input_image_path(self, input_image_path) ==
    [self EXCEPT !.kwargs["reference_4dpet_img_path"] = PyStr(input_image_path),
                 !._input_image_path = input_image_path]

ResampleBloodTACStep_set_resampled_tac_path(self, resampled_tac_path) ==
    [self EXCEPT !.kwargs["out_tac_path"] = PyStr(resampled_tac_path),
                 !._resampled_tac_path = resampled_tac_path]

\* A link that takes the predecessor's output as the raw blood curve.
Mutant_blood_link_sets_raw_curve(self, sending_step) ==
    IF sending_step.variant = "ImageToImageStep"
    THEN Returned(ResampleBloodTACStep_set_raw_blood_tac_path(self,
                      sending_step.output_image_path))
    ELSE FunctionBasedStep_set_input_as_output_from(self, sending_step)

ResampleBloodTACStep_set_input_as_output_from(self, sending_step) ==
    IF sending_step.variant = "ImageToImageStep"
    THEN Returned(ResampleBloodTACStep_set_input_image_path(self,
                      sending_step.output_image_path))
    ELSE FunctionBasedStep_set_input_as_output_from(self, sending_step)

\* An inference that reads the identifiers from the reference image path.
Mutant_blood_infer_from_reference(self, out_dir, der_type, suffix, ext, extra_desc) ==
    LET ids == parse_path_to_get_subject_and_session_id(self._input_image_path)
    IN  IF ids.raised # "none" THEN ids
        ELSE LET filepath == gen_bids_like_filepath(ids.value[1], ids.value[2], out_dir,
                                 S_preproc, suffix, ext,
                                 <<<<S_desc, S_OnScannerFrameTimes>>>>)
             IN  Returned(ResampleBloodTACStep_set_resampled_tac_path(self, filepath))

ResampleBloodTACStep_infer_outputs_from_inputs(self, out_dir, der_type, suffix, ext, extra_desc) ==
    LET ids == parse_path_to_get_subject_and_session_id(self._raw_blood_tac_path)
    IN  IF ids.raised # "none" THEN ids
        ELSE LET filepath == gen_bids_like_filepath(ids.value[1], ids.value[2], out_dir,
                                 S_preproc, suffix, ext,
                                 <<<<S_desc, S_OnScannerFrameTimes>>>>)
             IN  Returned(ResampleBloodTACStep_set_resampled_tac_path(self, filepath))

\* ResampleBloodTACStep.__repr__(): the name=value pairs it lists
ResampleBloodTACStep_repr(self) ==
    [input_raw_blood_tac_path |-> PyStr(self._raw_blood_tac_path),
     input_image_path |-> PyStr(self._input_image_path),
     out_tac_path |-> PyStr(self._resampled_tac_path),
     lin_fit_thresh_in_mins |-> self.lin_fit_thresh_in_mins]

\* ResampleBloodTACStep(**pairs): a parameter that is not passed takes the
\* default of the signature
ResampleBloodTACStep_from_keywords(d) ==
    ResampleBloodTACStep_init(
        d.input_raw_blood_tac_path.v, d.input_image_path.v, d.out_tac_path.v,
        IF "lin_fit_thresh_in_mins" \in DOMAIN d THEN d.lin_fit_thresh_in_mins
                                                 ELSE PyFloat(S_30),
        IF "rescale_constant" \in DOMAIN d THEN d.rescale_constant ELSE PyFloat(S_37000))

default_resample_blood_tac_on_scanner_times ==
    ResampleBloodTACStep_init(EmptyStr, EmptyStr, EmptyStr, PyFloat(S_30), PyFloat(S_37000))

----------------------------------------------------------------------------
(* Dispatch on the variant of a step, as Python's method resolution does.  *)

can_potentially_run(self) ==
    IF self.variant = "ImageToImageStep" THEN ImageToImageStep_can_potentially_run(self)
    ELSE FunctionBasedStep_can_potentially_run(self)

set_input_as_output_from(self, sending_step) ==
    CASE self.variant = "ImageToImageStep" ->
             ImageToImageStep_set_input_as_output_from(self, sending_step)
      [] self.variant = "TACsFromSegmentationStep" ->
             TACsFromSegmentationStep_set_input_as_output_from(self, sending_step)
      [] self.variant = "ResampleBloodTACStep" ->
             ResampleBloodTACStep_set_input_as_output_from(self, sending_step)

infer_outputs_from_inputs(self, out_dir, der_type, suffix, ext, extra_desc) ==
    CASE self.variant = "ImageToImageStep" ->
             ImageToImageStep_infer_outputs_from_inputs(self, out_dir, der_type, suffix,
                                                        ext, extra_desc)
      [] self.variant = "TACsFromSegmentationStep" ->
             TACsFromSegmentationStep_infer_outputs_from_inputs(self, out_dir, der_type,
                                                                suffix, ext, extra_desc)
      [] self.variant = "ResampleBloodTACStep" ->
             ResampleBloodTACStep_infer_outputs_from_inputs(self, out_dir, der_type,
                                                            suffix, ext, extra_desc)

execute(self, copy_meta_file, function_outcome, copy_outcome) ==
    IF self.variant = "ImageToImageStep"
    THEN ImageToImageStep_execute(self, copy_meta_file, function_outcome, copy_outcome)
    ELSE FunctionBasedStep_execute(self, function_outcome)

\* The named path accessors each variant defines.
path_accessors(self) ==
    CASE self.variant = "ImageToImageStep" -> {"input_image_path", "output_image_path"}
      [] self.variant = "TACsFromSegmentationStep" ->
             {"input_image_path", "segmentation_image_path", "segmentation_label_map_path",
              "out_tacs_dir", "out_tacs_prefix"}
      [] self.variant = "ResampleBloodTACStep" ->
             {"raw_blood_tac_path", "input_image_path", "resampled_tac_path"}

\* self.<accessor>: the value the accessor reads
get_accessor(self, accessor) ==
    CASE self.variant = "ImageToImageStep" ->
             (CASE accessor = "input_image_path" -> self.input_image_path
                [] accessor = "output_image_path" -> self.output_image_path)
      [] self.variant = "TACsFromSegmentationStep" ->
             (CASE accessor = "input_image_path" -> self._input_image
                [] accessor = "segmentation_image_path" -> self._segmentation_image
                [] accessor = "segmentation_label_map_path" -> self._segmentation_label_map
                [] accessor = "out_tacs_dir" -> self._out_tacs_path
                [] accessor = "out_tacs_prefix" -> self._out_tacs_prefix)
      [] self.variant = "ResampleBloodTACStep" ->
             (CASE accessor = "raw_blood_tac_path" -> self._raw_blood_tac_path
                [] accessor = "input_image_path" -> self._input_image_path
                [] accessor = "resampled_tac_path" -> self._resampled_tac_path)

\* self.<accessor> = value
set_accessor(self, accessor, value) ==
    CASE self.variant = "ImageToImageStep" ->
             (CASE accessor = "input_image_path" ->
                       ImageToImageStep_set_input_image_path(self, value)
                [] accessor = "output_image_path" ->
                       ImageToImageStep_set_output_image_path(self, value))
      [] self.variant = "TACsFromSegmentationStep" ->
             (CASE accessor = "input_image_path" ->
                       TACsFromSegmentationStep_set_input_image_path(self, value)
                [] accessor = "segmentation_image_path" ->
                       TACsFromSegmentationStep_set_segmentation_image_path(self, value)
                [] accessor = "segmentation_label_map_path" ->
                       TACsFromSegmentationStep_set_segmentation_label_map_path(self, value)
                [] accessor = "out_tacs_dir" ->
                       TACsFromSegmentationStep_set_out_tacs_dir(self, value)
                [] accessor = "out_tacs_prefix" ->
                       TACsFromSegmentationStep_set_out_tacs_prefix(self, value))
      [] self.variant = "ResampleBloodTACStep" ->
             (CASE accessor = "raw_blood_tac_path" ->
                       ResampleBloodTACStep_set_raw_blood_tac_path(self, value)
                [] accessor = "input_image_path" ->
                       ResampleBloodTACStep_set_input_image_path(self, value)
                [] accessor = "resampled_tac_path" ->
                       ResampleBloodTACStep_set_resampled_tac_path(self, value))

----------------------------------------------------------------------------
(* The inputs the operations are called with.                              *)

\* the largest number of extra descriptors a caller passes
MaxDesc == 2

P_SCEN == <<"/", "d", "a", "t", "a", "/", "s", "u", "b", "-", "0", "1", "_", "s", "e", "s", "-", "0", "1", "_", "p", "e", "t", ".", "n", "i", "i", ".", "g", "z">>
P_BLOOD == <<"/", "d", "a", "t", "a", "/", "s", "u", "b", "-", "0", "2", "_", "s", "e", "s", "-", "0", "1", "_", "b", "l", "o", "o", "d", ".", "t", "s", "v">>
P_NOTOK == <<"/", "d", "a", "t", "a", "/", "p", "e", "t", ".", "n", "i", "i", ".", "g", "z">>
P_SEG == <<"/", "s", "e", "g", "/", "s", "u", "b", "-", "0", "9", "_", "s", "e", "s", "-", "0", "9", "_", "s", "e", "g", ".", "n", "i", "i", ".", "g", "z">>
P_OUT == <<"/", "o", "u", "t", "/", "o", "u", "t", ".", "n", "i", "i", ".", "g", "z">>
P_UP == <<"/", "u", "p", "/", "s", "u", "b", "-", "0", "5", "_", "s", "e", "s", "-", "0", "2", "_", "p", "e", "t", ".", "n", "i", "i", ".", "g", "z">>
S_km == <<"k", "m">>
S_out == <<"/", "o", "u", "t">>
S_run == <<"r", "u", "n">>
S_rec == <<"r", "e", "c">>
S_1 == <<"1">>
S_ab == <<"a", "b">>
S_X == <<"X">>
Scenario_ThreshCrop == <<"/", "o", "u", "t", "/", "s", "u", "b", "-", "0", "1", "/", "s", "e", "s", "-", "0", "1", "/", "p", "r", "e", "p", "r", "o", "c", "/", "s", "u", "b", "-", "0", "1", "_", "s", "e", "s", "-", "0", "1", "_", "d", "e", "s", "c", "-", "T", "h", "r", "e", "s", "h", "C", "r", "o", "p", "_", "p", "e", "t", ".", "n", "i", "i", ".", "g", "z">>
Scenario_BloodEnd == <<"s", "u", "b", "-", "0", "2", "_", "s", "e", "s", "-", "0", "1", "_", "d", "e", "s", "c", "-", "O", "n", "S", "c", "a", "n", "n", "e", "r", "F", "r", "a", "m", "e", "T", "i", "m", "e", "s", "_", "b", "l", "o", "o", "d", ".", "t", "s", "v">>
P_LM == <<"/", "s", "e", "g", "/", "d", "s", "e", "g", ".", "t", "s", "v">>

\* the values assigned through each path accessor
accessor_values(self, accessor) ==
    CASE self.variant = "ImageToImageStep" /\ accessor = "input_image_path" ->
             {EmptyStr, P_SCEN, P_NOTOK}
      [] self.variant = "TACsFromSegmentationStep" /\ accessor = "input_image_path" ->
             {EmptyStr, P_SCEN, P_NOTOK}
      [] self.variant = "ResampleBloodTACStep" /\ accessor = "input_image_path" ->
             {EmptyStr, P_SCEN}
      [] accessor = "raw_blood_tac_path" -> {EmptyStr, P_BLOOD, P_NOTOK}
      [] accessor = "segmentation_image_path" -> {EmptyStr, P_SEG}
      [] accessor = "segmentation_label_map_path" -> {EmptyStr, P_LM}
      [] accessor = "out_tacs_dir" -> {EmptyStr, S_out}
      [] accessor = "out_tacs_prefix" -> {EmptyStr, S_X}
      [] accessor \in {"output_image_path", "resampled_tac_path"} -> {EmptyStr, P_OUT}

\* sequences of at most n different items of the set pool
RECURSIVE seqs_without_repeats(_, _)
seqs_without_repeats(pool, n) ==
    IF n = 0 THEN {<< >>}
    ELSE LET shorter == seqs_without_repeats(pool, n - 1)
             longer == {Append(q, x) : q \in shorter, x \in pool}
         IN  shorter \cup {q \in longer : \A i, j \in 1..Len(q) : q[i] = q[j] => i = j}

\* the arguments of infer_outputs_from_inputs: **extra_desc (keyword names
\* are unique), out_dir, and <<der_type, suffix, ext>>
InferExtras == {<< >>, <<<<S_run, S_1>>, <<S_rec, S_ab>>>>, <<<<S_desc, S_X>>>>}
OutDirs == {S_out}
InferCalls == {<<S_preproc, S_pet, S_niigz>>, <<S_km, S_pet, S_niigz>>,
               <<S_km, S_blood, S_tsv>>}

\* **overrides of the factory presets
Overrides == {EmptyDict, [bogus |-> PyFloat(S_1)]}

----------------------------------------------------------------------------
(* The state machine: a step under construction and configuration, and the *)
(* image-to-image step it is linked to.                                    *)

NoCall == [fn |-> "none"]
\* the calls to the wrapped function and to safe_copy_meta that the operation
\* just performed has made, in order: none outside execute
NoTrace == << >>
\* the dictionaries that are kept as objects of their own: none where the
\* steps are followed by value
NoHeap == << >>

InitialSteps ==
    {default_threshold_cropping(EmptyDict).made.value,
     default_moco_frames_above_mean(PyBool(FALSE), EmptyDict).made.value,
     default_windowed_moco(PyBool(FALSE), EmptyDict).made.value,
     default_register_pet_to_t1(PyStr(EmptyStr), PyNone, PyBool(FALSE), EmptyDict).made.value,
     default_write_tacs_from_segmentation_rois.value,
     default_resample_blood_tac_on_scanner_times.value}

Init ==
    /\ step \in InitialSteps
    /\ sender = default_moco_frames_above_mean(PyBool(FALSE), EmptyDict).made.value
    /\ last = [op |-> "init"]
    /\ raised = "none"
    /\ warned = FALSE
    /\ call = NoCall
    /\ trace = NoTrace
    /\ heap = NoHeap

\* ImageToImageStep.<preset>(<params>, **overrides)
preset_call(preset, params, overrides) ==
    CASE preset = "default_threshold_cropping" -> default_threshold_cropping(overrides)
      [] preset = "default_moco_frames_above_mean" ->
             default_moco_frames_above_mean(params.verbose, overrides)
      [] preset = "default_windowed_moco" ->
             default_windowed_moco(params.verbose, overrides)
      [] preset = "default_register_pet_to_t1" ->
             default_register_pet_to_t1(params.reference_image_path, params.half_life,
                                        params.verbose, overrides)

\* the defaults of the presets' own parameters
PresetParams(reference_image_path) ==
    [reference_image_path |-> reference_image_path, half_life |-> PyNone,
     verbose |-> PyBool(FALSE)]

\* the presets called with their own parameters left at the defaults
PresetParamsDefault == PresetParams(PyStr(EmptyStr))

\* step = ImageToImageStep.<preset>(<params>, **overrides)
Preset(preset, params, overrides) ==
    LET built == preset_call(preset, params, overrides)
    IN  /\ step' = (IF built.made.raised = "none" THEN built.made.value ELSE step)
        /\ raised' = built.made.raised
        /\ warned' = built.warned
        /\ last' = [op |-> "preset", preset |-> preset, params |-> params,
                    overrides |-> overrides]
        /\ trace' = NoTrace
        /\ UNCHANGED <<sender, call, heap>>

PresetThresholdCropping ==
    \E o \in Overrides :
        Preset("default_threshold_cropping", PresetParamsDefault, o)

PresetMocoFramesAboveMean ==
    \E o \in Overrides :
        Preset("default_moco_frames_above_mean", PresetParamsDefault, o)

PresetWindowedMoco ==
    \E o \in Overrides :
        Preset("default_windowed_moco", PresetParamsDefault, o)

PresetRegisterPetToT1 ==
    \E o \in Overrides, ref \in {PyStr(EmptyStr), PyStr(P_SEG)} :
        Preset("default_register_pet_to_t1", PresetParams(ref), o)

\* step = TACsFromSegmentationStep('', '', '', '', '', time_keyword, verbose)
NewTACsFromSegmentationStep ==
    \E time_keyword \in {PyStr(S_FrameReferenceTime), PyStr(EmptyStr)},
       verbose \in {PyBool(FALSE)} :
        LET built == TACsFromSegmentationStep_init(EmptyStr, EmptyStr, EmptyStr, EmptyStr,
                                                   EmptyStr, time_keyword, verbose)
        IN  /\ step' = built.value
            /\ raised' = built.raised
            /\ warned' = FALSE
            /\ last' = [op |-> "new", time_keyword |-> time_keyword, verbose |-> verbose]
            /\ trace' = NoTrace
            /\ UNCHANGED <<sender, call, heap>>

\* step = ResampleBloodTACStep.default_resample_blood_tac_on_scanner_times()
NewResampleBloodTACStep ==
    /\ step' = default_resample_blood_tac_on_scanner_times.value
    /\ raised' = default_resample_blood_tac_on_scanner_times.raised
    /\ warned' = FALSE
    /\ last' = [op |-> "new"]
    /\ trace' = NoTrace
    /\ UNCHANGED <<sender, call, heap>>

\* step.<accessor> = value
SetAccessor ==
    \E accessor \in path_accessors(step) :
        \E value \in accessor_values(step, accessor) :
            /\ step' = set_accessor(step, accessor, value)
            /\ raised' = "none"
            /\ warned' = FALSE
            /\ last' = [op |-> "set", accessor |-> accessor, value |-> value]
            /\ trace' = NoTrace
            /\ UNCHANGED <<sender, call, heap>>

\* sender.output_image_path = value
SenderSetOutput ==
    \E value \in {EmptyStr, P_UP} :
        /\ sender.variant = "ImageToImageStep"
        /\ sender' = ImageToImageStep_set_output_image_path(sender, value)
        /\ raised' = "none"
        /\ warned' = FALSE
        /\ last' = [op |-> "sender_set", accessor |-> "output_image_path", value |-> value]
        /\ trace' = NoTrace
        /\ UNCHANGED <<step, call, heap>>

\* step.set_input_as_output_from(sender)
Link ==
    LET res == set_input_as_output_from(step, sender)
    IN  /\ step' = (IF res.raised = "none" THEN res.value ELSE step)
        /\ raised' = res.raised
        /\ warned' = FALSE
        /\ last' = [op |-> "link"]
        /\ trace' = NoTrace
        /\ UNCHANGED <<sender, call, heap>>

\* step.infer_outputs_from_inputs(out_dir, der_type, suffix, ext, **extra_desc)
InferWith(out_dirs, calls, extras) ==
    \E out_dir \in out_dirs, c \in calls, extra_desc \in extras :
        LET res == infer_outputs_from_inputs(step, out_dir, c[1], c[2], c[3], extra_desc)
        IN  /\ step' = (IF res.raised = "none" THEN res.value ELSE step)
            /\ raised' = res.raised
            /\ warned' = FALSE
            /\ last' = [op |-> "infer", out_dir |-> out_dir, der_type |-> c[1],
                        suffix |-> c[2], ext |-> c[3], extra_desc |-> extra_desc]
            /\ trace' = NoTrace
            /\ UNCHANGED <<sender, call, heap>>

Infer == InferWith(OutDirs, InferCalls, InferExtras)

Next ==
    \/ PresetThresholdCropping
    \/ PresetMocoFramesAboveMean
    \/ PresetWindowedMoco
    \/ PresetRegisterPetToT1
    \/ NewTACsFromSegmentationStep
    \/ NewResampleBloodTACStep
    \/ SetAccessor
    \/ SenderSetOutput
    \/ Link
    \/ Infer

Spec == Init /\ [][Next]_vars

----------------------------------------------------------------------------
(* Properties of the steps, checked under Spec.                            *)

IsImage(self) == self.variant = "ImageToImageStep"
IsTACs(self) == self.variant = "TACsFromSegmentationStep"
IsBlood(self) == self.variant = "ResampleBloodTACStep"

\* C1: linking an image-to-image step to an image-to-image sender sets the
\* step's input_image_path to the sender's output_image_path and changes
\* nothing else: the step's output path, name, function, positional and
\* keyword arguments, and every attribute of the sender, stay as they were.
C1_LinkSetsOnlyInput ==
    [][(last'.op = "link" /\ IsImage(step) /\ IsImage(sender)) =>
          /\ raised' = "none"
          /\ step'.input_image_path = sender.output_image_path
          /\ step' = [step EXCEPT !.input_image_path = sender.output_image_path]
          /\ sender' = sender]_vars

C1_Witness ==
    /\ last.op = "link"
    /\ IsImage(step) /\ IsImage(sender)
    /\ step.input_image_path = P_UP
    /\ sender.output_image_path = P_UP
    /\ step.output_image_path = P_OUT

\* The keyword-argument entry that stands for each path accessor.
accessor_keyword(self, accessor) ==
    CASE IsImage(self) -> accessor
      [] IsTACs(self) ->
             (CASE accessor = "input_image_path" -> "input_image_path"
                [] accessor = "segmentation_image_path" -> "segmentation_image_path"
                [] accessor = "segmentation_label_map_path" -> "label_map_path"
                [] accessor = "out_tacs_dir" -> "out_tac_dir"
                [] accessor = "out_tacs_prefix" -> "out_tac_prefix")
      [] IsBlood(self) ->
             (CASE accessor = "raw_blood_tac_path" -> "blood_tac_path"
                [] accessor = "input_image_path" -> "reference_4dpet_img_path"
                [] accessor = "resampled_tac_path" -> "out_tac_path")

\* An assignment through a path accessor updates exactly the accessor's
\* keyword-argument entry.
UpdatesExactlyItsEntry(before, after, accessor, value) ==
    LET k == accessor_keyword(before, accessor)
    IN  /\ k \in DOMAIN after.kwargs
        /\ after.kwargs[k] = PyStr(value)
        /\ DOMAIN after.kwargs = DOMAIN before.kwargs
        /\ \A j \in DOMAIN before.kwargs : j # k => after.kwargs[j] = before.kwargs[j]

\* C2 as stated: for every typed step, image-to-image steps included,
\* setting a named path accessor updates exactly the corresponding
\* keyword-argument entry and no other.
C2_AsStated ==
    [][last'.op = "set" =>
          UpdatesExactlyItsEntry(step, step', last'.accessor, last'.value)]_vars

\* C2, amended: setting a named path accessor makes the accessor read the
\* new value; on a tissue-curve or blood-curve step it updates exactly the
\* corresponding keyword-argument entry and no other; on an image-to-image
\* step the paths are attributes and no keyword-argument entry changes.
C2_AccessorWritesThrough ==
    [][last'.op = "set" =>
          /\ get_accessor(step', last'.accessor) = last'.value
          /\ \A a \in path_accessors(step) \ {last'.accessor} :
                 get_accessor(step', a) = get_accessor(step, a)
          /\ IF IsImage(step)
             THEN step'.kwargs = step.kwargs
             ELSE UpdatesExactlyItsEntry(step, step', last'.accessor, last'.value)]_vars

C2_Witness ==
    /\ last.op = "set"
    /\ IsTACs(step)
    /\ last.accessor = "segmentation_label_map_path"
    /\ step._segmentation_label_map = P_LM
    /\ step.kwargs["label_map_path"] = PyStr(P_LM)
    /\ step.kwargs["segmentation_image_path"] = PyStr(P_SEG)

\* The path slots a variant requires are those its path accessors name.
RequiredSlotsNonEmpty(self) ==
    \A a \in path_accessors(self) : get_accessor(self, a) # EmptyStr

\* No stored positional or keyword argument is the empty string.
NoEmptyStringArgument(self) ==
    /\ \A i \in 1..Len(self.args) : ~is_empty_str(self.args[i])
    /\ \A k \in DOMAIN self.kwargs : ~is_empty_str(self.kwargs[k])

default_instance(preset, params) == preset_call(preset, params, EmptyDict).made.value

\* C4: a factory preset given an override keyword that matches no
\* constructor parameter returns the unmodified default instance, emits a
\* warning and raises nothing.
C4_UnknownOverrideFallsBack ==
    (/\ last.op = "preset"
     /\ \E k \in DOMAIN last.overrides : k \notin ImageToImageStep_init_params)
        => /\ raised = "none"
           /\ warned
           /\ step = default_instance(last.preset, last.params)

\* The file name starts with sub-<S>_ses-<E>_ .
HasSubSesPrefix(filename) ==
    LET tokens == str_split(filename, S_us)
    IN  /\ Len(tokens) >= 3
        /\ str_startswith(tokens[1], S_sub)
        /\ str_startswith(tokens[2], S_ses)

\* <S> and <E> of a file name that starts with sub-<S>_ses-<E>_ .
PrefixIds(filename) ==
    LET tokens == str_split(filename, S_us)
    IN  <<SubSeq(tokens[1], Len(S_sub) + 1, Len(tokens[1])),
          SubSeq(tokens[2], Len(S_ses) + 1, Len(tokens[2]))>>

\* _<key>-<value> for each descriptor, in order
RECURSIVE DescriptorTokens(_)
DescriptorTokens(extra_desc) ==
    IF Len(extra_desc) = 0 THEN EmptyStr
    ELSE S_us \o extra_desc[1][1] \o S_dash \o extra_desc[1][2]
             \o DescriptorTokens(Tail(extra_desc))

\* root/sub-<S>/ses-<E>/<modality>/sub-<S>_ses-<E>[_<key>-<value>...]_<suffix><ext>
BidsLikePath(root, sub_id, ses_id, modality, descriptors, suffix, ext) ==
    root \o S_sep \o S_sub \o sub_id \o S_sep \o S_ses \o ses_id \o S_sep \o modality
         \o S_sep \o S_sub \o sub_id \o S_us \o S_ses \o ses_id
         \o DescriptorTokens(descriptors) \o S_us \o suffix \o ext

\* C5: for an image-to-image step whose input file name starts with
\* sub-<S>_ses-<E>_, infer_outputs_from_inputs succeeds for any extra
\* descriptor keys and sets output_image_path to
\* out_dir/sub-<S>/ses-<E>/<der_type>/sub-<S>_ses-<E>_desc-<CamelCase(name)>
\* [_<key>-<value>...]_<suffix><ext>; thresh_crop on
\* /data/sub-01_ses-01_pet.nii.gz with out_dir /out and der_type preproc gives
\* /out/sub-01/ses-01/preproc/sub-01_ses-01_desc-ThreshCrop_pet.nii.gz.
C5_InferSucceedsForAnyDescriptors ==
    (/\ last.op = "infer"
     /\ IsImage(step)
     /\ HasSubSesPrefix(pathlib_name(step.input_image_path)))
        => LET ids == PrefixIds(pathlib_name(step.input_image_path))
           IN  /\ raised = "none"
               /\ step.output_image_path =
                      BidsLikePath(last.out_dir, ids[1], ids[2], last.der_type,
                                   <<<<S_desc, snake_to_camel_case(step.name)>>>>
                                       \o last.extra_desc,
                                   last.suffix, last.ext)
               /\ (/\ step.name = S_thresh_crop
                   /\ step.input_image_path = P_SCEN
                   /\ last.out_dir = S_out /\ last.der_type = S_preproc
                   /\ last.suffix = S_pet /\ last.ext = S_niigz
                   /\ last.extra_desc = << >>)
                      => step.output_image_path = Scenario_ThreshCrop

\* C6: a blood-curve step's infer_outputs_from_inputs takes the subject and
\* session from the raw curve path, whatever the reference image path is,
\* always writes the descriptor desc-OnScannerFrameTimes, and gives the same
\* path for every der_type; raw path /data/sub-02_ses-01_blood.tsv gives a
\* path that ends with sub-02_ses-01_desc-OnScannerFrameTimes_blood.tsv.
C6_BloodInferFromRawCurve ==
    (last.op = "infer" /\ IsBlood(step) /\ raised = "none")
        => LET ids == parse_path_to_get_subject_and_session_id(step._raw_blood_tac_path).value
               out == step._resampled_tac_path
           IN  /\ out = BidsLikePath(last.out_dir, ids[1], ids[2], S_preproc,
                                     <<<<S_desc, S_OnScannerFrameTimes>>>>,
                                     last.suffix, last.ext)
               /\ step.kwargs["out_tac_path"] = PyStr(out)
               /\ (/\ step._raw_blood_tac_path = P_BLOOD
                   /\ last.suffix = S_blood /\ last.ext = S_tsv)
                      => str_endswith(out, Scenario_BloodEnd)

C6_Witness ==
    /\ last.op = "infer" /\ IsBlood(step) /\ raised = "none"
    /\ step._raw_blood_tac_path = P_BLOOD
    /\ step._input_image_path = P_SCEN
    /\ last.der_type = S_km
    /\ str_endswith(step._resampled_tac_path, Scenario_BloodEnd)

\* The path from which a variant's infer_outputs_from_inputs reads the identifiers.
identifying_path(self) ==
    CASE IsImage(self) -> self.input_image_path
      [] IsTACs(self) -> self._input_image
      [] IsBlood(self) -> self._raw_blood_tac_path

\* The paths a variant's infer_outputs_from_inputs derives.
derived_paths(self) ==
    CASE IsImage(self) -> {self.output_image_path}
      [] IsTACs(self) -> {self._out_tacs_path, self._out_tacs_prefix}
      [] IsBlood(self) -> {self._resampled_tac_path}

\* The file name holds no sub- marker or no ses- marker.
LacksTokens(path) ==
    \/ ~str_contains(pathlib_name(path), S_sub)
    \/ ~str_contains(pathlib_name(path), S_ses)

\* The call repeats a keyword that the image-to-image inference passes itself.
RepeatsPassedKeyword(self, extra_desc) ==
    /\ IsImage(self)
    /\ \E i \in 1..Len(extra_desc) :
           extra_desc[i][1] \in ImageToImageStep_infer_passed_keywords

UnderRoot(root) == IF str_endswith(root, S_sep) THEN root ELSE root \o S_sep

S_WriteRoiTacs == <<"W", "r", "i", "t", "e", "R", "o", "i", "T", "a", "c", "s">>

\* C16: TACsFromSegmentationStep.infer_outputs_from_inputs changes only the
\* output directory and the output prefix (and their keyword entries).  The
\* identifiers are parsed from the input image path; the directory is
\* out_dir/sub-<S>/ses-<E>/tacs and the prefix is
\* sub-<S>_ses-<E>_desc-<CamelCase(step name)>, whatever der_type, suffix,
\* ext and descriptors are passed.  The input image, segmentation and
\* label-map slots keep their values.
C16_TacsInferDerivesDirAndPrefix ==
    [][(last'.op = "infer" /\ IsTACs(step) /\ raised' = "none") =>
          LET ids == parse_path_to_get_subject_and_session_id(step._input_image).value
              dir == UnderRoot(last'.out_dir) \o S_sub \o ids[1] \o S_sep
                        \o S_ses \o ids[2] \o S_sep \o S_tacs
              prefix == S_sub \o ids[1] \o S_us \o S_ses \o ids[2] \o S_us
                           \o S_desc \o S_dash \o S_WriteRoiTacs
          IN  /\ step'._out_tacs_path = dir
              /\ step'._out_tacs_prefix = prefix
              /\ step' = [step EXCEPT !._out_tacs_path = dir,
                                      !._out_tacs_prefix = prefix,
                                      !.kwargs = [@ EXCEPT !["out_tac_dir"] = PyStr(dir),
                                                           !["out_tac_prefix"] = PyStr(prefix)]]
              /\ step'._input_image = step._input_image
              /\ step'._segmentation_image = step._segmentation_image
              /\ step'._segmentation_label_map = step._segmentation_label_map]_vars

C16_Witness ==
    /\ last.op = "infer" /\ IsTACs(step) /\ raised = "none"
    /\ step._input_image = P_SCEN
    /\ step._segmentation_image = P_SEG
    /\ step._segmentation_label_map = P_LM
    /\ last.out_dir = S_out
    /\ str_endswith(step._out_tacs_prefix, S_desc \o S_dash \o S_WriteRoiTacs)
    /\ str_contains(step._out_tacs_path, S_sub \o <<"0", "1">>)

\* C17: TACsFromSegmentationStep.set_input_as_output_from with an
\* image-to-image predecessor sets the input image slot (and its keyword
\* entry input_image_path) to the predecessor's output path and nothing else:
\* segmentation, label map, output directory, prefix, time keyword and
\* verbosity keep their values, and the predecessor is not changed.
C17_TacsLinkSetsOnlyInputImage ==
    [][(last'.op = "link" /\ IsTACs(step) /\ IsImage(sender)) =>
          /\ raised' = "none"
          /\ step'._input_image = sender.output_image_path
          /\ step' = [step EXCEPT !._input_image = sender.output_image_path,
                                  !.kwargs = [@ EXCEPT !["input_image_path"] =
                                                  PyStr(sender.output_image_path)]]
          /\ sender' = sender]_vars

C17_Witness ==
    /\ last.op = "link" /\ IsTACs(step) /\ IsImage(sender)
    /\ step._input_image = P_UP
    /\ step._segmentation_image = P_SEG
    /\ step._out_tacs_path = S_out

\* C18: ResampleBloodTACStep.set_input_as_output_from with an image-to-image
\* predecessor sets the reference image slot (keyword entry
\* reference_4dpet_img_path) to the predecessor's output path; the raw curve
\* slot, the output curve path and the numeric parameters keep their values.
C18_BloodLinkSetsReferenceImage ==
    [][(last'.op = "link" /\ IsBlood(step) /\ IsImage(sender)) =>
          /\ raised' = "none"
          /\ step'._input_image_path = sender.output_image_path
          /\ step'.kwargs["reference_4dpet_img_path"] = PyStr(sender.output_image_path)
          /\ step' = [step EXCEPT !._input_image_path = sender.output_image_path,
                                  !.kwargs = [@ EXCEPT !["reference_4dpet_img_path"] =
                                                  PyStr(sender.output_image_path)]]
          /\ sender' = sender]_vars

C18_Witness ==
    /\ last.op = "link" /\ IsBlood(step) /\ IsImage(sender)
    /\ step._input_image_path = P_UP
    /\ step._raw_blood_tac_path = P_BLOOD
    /\ step._resampled_tac_path = P_OUT

\* A step of the same variant and name that holds nothing but the path the
\* inference reads.
only_designated_input(self) ==
    CASE IsImage(self) ->
             ImageToImageStep_init(self.name, self.function, self.input_image_path,
                                   EmptyStr, << >>, EmptyDict).value
      [] IsTACs(self) ->
             TACsFromSegmentationStep_set_input_image_path(
                 default_write_tacs_from_segmentation_rois.value, self._input_image)
      [] IsBlood(self) ->
             ResampleBloodTACStep_set_raw_blood_tac_path(
                 default_resample_blood_tac_on_scanner_times.value, self._raw_blood_tac_path)

\* The step with its output slots and their keyword entries emptied.
without_outputs(self) ==
    CASE IsImage(self) -> [self EXCEPT !.output_image_path = EmptyStr]
      [] IsTACs(self) ->
             [self EXCEPT !._out_tacs_path = EmptyStr,
                          !._out_tacs_prefix = EmptyStr,
                          !.kwargs = [@ EXCEPT !["out_tac_dir"] = PyStr(EmptyStr),
                                               !["out_tac_prefix"] = PyStr(EmptyStr)]]
      [] IsBlood(self) ->
             [self EXCEPT !._resampled_tac_path = EmptyStr,
                          !.kwargs = [@ EXCEPT !["out_tac_path"] = PyStr(EmptyStr)]]

\* C22: for every variant, infer_outputs_from_inputs called again with the
\* same arguments leaves the step as the first call left it; the derived
\* path(s) are those a step holding only the same designated input path and
\* name derives with the same arguments; and the call changes nothing but the
\* output slot(s) and their keyword entries.
C22_InferDeterministicOutputsOnly ==
    [][(last'.op = "infer" /\ raised' = "none") =>
          LET again == infer_outputs_from_inputs(step', last'.out_dir, last'.der_type,
                           last'.suffix, last'.ext, last'.extra_desc)
              alone == infer_outputs_from_inputs(only_designated_input(step),
                           last'.out_dir, last'.der_type, last'.suffix, last'.ext,
                           last'.extra_desc)
          IN  /\ again = Returned(step')
              /\ alone.raised = "none"
              /\ derived_paths(alone.value) = derived_paths(step')
              /\ without_outputs(step') = without_outputs(step)]_vars

C22_Witness ==
    /\ last.op = "infer" /\ raised = "none"
    /\ IsImage(step)
    /\ step.input_image_path = P_UP
    /\ last.der_type = S_km
    /\ last.extra_desc # << >>
    /\ step.output_image_path # EmptyStr

----------------------------------------------------------------------------
(* Execution: an image-to-image step is built, configured and executed.    *)

\* what the wrapped function and safe_copy_meta may raise ("none": they return)
WrappedOutcomes == {"none", "FileNotFoundError", "RuntimeError"}
CopyOutcomes == {"none", "OSError"}

\* execute(), execute(True), execute(False)
CopyFlags == {"omitted", "True", "False"}

\* copy_meta_file: bool = True
copy_meta_file_default == TRUE

copy_meta_file_passed(flag) == IF flag = "omitted" THEN copy_meta_file_default ELSE flag = "True"

\* execute(copy_meta_file) with what its callees do; a callee that is not
\* reached has no outcome.  Only ImageToImageStep.execute takes copy_meta_file
\* (for the other steps the flag is recorded as "omitted" and the base execute
\* copies nothing).
ExecuteCases(self) ==
    {c \in CopyFlags \X WrappedOutcomes \X CopyOutcomes :
         /\ (c[2] # "none" \/ ~copy_meta_file_passed(c[1])) => c[3] = "none"
         /\ self.variant # "ImageToImageStep" => c[1] = "omitted"}

\* step.execute(copy_meta_file)
Execute ==
    \E c \in ExecuteCases(step) :
        LET res == execute(step, copy_meta_file_passed(c[1]), c[2], c[3])
        IN  /\ trace' = res.trace
            /\ raised' = res.raised
            /\ warned' = FALSE
            /\ last' = [op |-> "execute", copy_meta_file |-> c[1],
                        function_outcome |-> c[2], copy_outcome |-> c[3]]
            /\ UNCHANGED <<step, sender, call, heap>>

\* the positional arguments after the two paths, and the keyword arguments
RestArgs == {<< >>, <<PyFloat(S_1), PyStr(S_ab)>>}

\* step = ImageToImageStep('thresh_crop', SimpleAutoImageCropper, input, '', *args, **kwargs)
NewImageToImageStep ==
    \E input_image_path \in {EmptyStr, P_SCEN}, args \in RestArgs, kwargs \in Overrides :
        LET built == ImageToImageStep_init(S_thresh_crop, "SimpleAutoImageCropper",
                                           input_image_path, EmptyStr, args, kwargs)
        IN  /\ step' = built.value
            /\ raised' = built.raised
            /\ warned' = FALSE
            /\ last' = [op |-> "new_image", input_image_path |-> input_image_path,
                        args |-> args, kwargs |-> kwargs]
            /\ trace' = NoTrace
            /\ UNCHANGED <<sender, call, heap>>

\* step.infer_outputs_from_inputs('/out', 'preproc')
InferPlain == InferWith(OutDirs, {<<S_preproc, S_pet, S_niigz>>}, {<< >>})

InitExec ==
    /\ step = default_threshold_cropping(EmptyDict).made.value
    /\ sender = default_moco_frames_above_mean(PyBool(FALSE), EmptyDict).made.value
    /\ last = [op |-> "init"]
    /\ raised = "none"
    /\ warned = FALSE
    /\ call = NoCall
    /\ trace = NoTrace
    /\ heap = NoHeap

NextExec ==
    \/ NewImageToImageStep
    \/ SetAccessor
    \/ SenderSetOutput
    \/ Link
    \/ InferPlain
    \/ Execute

SpecExec == InitExec /\ [][NextExec]_vars

\* Properties of execution.

ExecutedImage == last.op = "execute" /\ IsImage(step)

\* where in the trace a callee was called
CallsOf(callee) == {i \in 1..Len(trace) : trace[i].callee = callee}

\* C12: ImageToImageStep.execute runs the wrapped function first; once it
\* has returned, the metadata is copied from the input image path to the
\* output image path exactly once if copy_meta_file is true (or left at its
\* default), and not at all if it is false.
C12_CopyAfterFunction ==
    (ExecutedImage /\ last.function_outcome = "none") =>
        /\ CallsOf("function") = {1}
        /\ IF last.copy_meta_file \in {"omitted", "True"}
           THEN /\ CallsOf("safe_copy_meta") = {2}
                /\ trace[2].kwargs["input_image_path"] = PyStr(step.input_image_path)
                /\ trace[2].kwargs["out_image_path"] = PyStr(step.output_image_path)
           ELSE CallsOf("safe_copy_meta") = {}

C12_Witness ==
    /\ ExecutedImage /\ last.function_outcome = "none" /\ last.copy_meta_file = "omitted"
    /\ step.input_image_path = P_SCEN
    /\ step.output_image_path = P_OUT
    /\ Len(trace) = 2 /\ trace[2].callee = "safe_copy_meta"

\* C13: when the wrapped function raises during execute, that same error
\* leaves execute, the function has been called exactly once, no metadata
\* is copied, and the step (name, paths, positional and keyword arguments)
\* is what it was before the call.
C13_FailurePropagates ==
    [][(last'.op = "execute" /\ IsImage(step) /\ last'.function_outcome # "none") =>
           /\ raised' = last'.function_outcome
           /\ Len(trace') = 1 /\ trace'[1].callee = "function"
           /\ step' = step]_vars

C13_Witness ==
    /\ ExecutedImage /\ last.function_outcome = "RuntimeError"
    /\ last.copy_meta_file = "True"
    /\ raised = "RuntimeError"
    /\ step.output_image_path = P_OUT

\* C14: execute calls function(input_path, output_path, *rest, **kwargs)
\* exactly once with the step's present input_image_path and
\* output_image_path in front, each passed once only, rest being the
\* positional arguments given after the two paths at construction, and the
\* keyword arguments being the stored ones.
C14_CallsWithCurrentPaths ==
    [][/\ last'.op = "new_image" => step'.args = last'.args
       /\ last'.op \in {"set", "link", "infer", "execute", "sender_set"} =>
              (IsImage(step) => step'.args = step.args)
       /\ (last'.op = "execute" /\ IsImage(step')) =>
              /\ {i \in 1..Len(trace') : trace'[i].callee = "function"} = {1}
              /\ trace'[1].args = <<PyStr(step'.input_image_path),
                                    PyStr(step'.output_image_path)>> \o step'.args
              /\ trace'[1].kwargs = step'.kwargs
              /\ {"input_image_path", "output_image_path"} \cap DOMAIN step'.kwargs = {}]_vars

C14_Witness ==
    /\ ExecutedImage
    /\ step.input_image_path = P_UP
    /\ step.output_image_path \notin {EmptyStr, P_OUT}
    /\ step.args = <<PyFloat(S_1), PyStr(S_ab)>>
    /\ trace[1].args = <<PyStr(P_UP), PyStr(step.output_image_path), PyFloat(S_1), PyStr(S_ab)>>

\* C19: execute has no readiness gate: on an image-to-image step with an
\* empty input or output path (can_potentially_run() false) it still calls
\* the wrapped function with the present, empty, paths, and a failure of the
\* function is the error that leaves execute.
C19_NoReadinessGate ==
    (ExecutedImage /\ (step.input_image_path = EmptyStr \/ step.output_image_path = EmptyStr)) =>
        /\ ~can_potentially_run(step)
        /\ Len(trace) >= 1 /\ trace[1].callee = "function"
        /\ trace[1].args[1] = PyStr(step.input_image_path)
        /\ trace[1].args[2] = PyStr(step.output_image_path)
        /\ last.function_outcome # "none" => raised = last.function_outcome

C19_Witness ==
    /\ ExecutedImage
    /\ step.input_image_path = EmptyStr
    /\ ~can_potentially_run(step)
    /\ trace[1].args[1] = PyStr(EmptyStr)
    /\ last.function_outcome = "FileNotFoundError" /\ raised = "FileNotFoundError"

----------------------------------------------------------------------------
(* Typed steps: any variant is configured, linked to a predecessor of any  *)
(* variant, and executed.                                                   *)

S_FrameTimesStart == <<"F", "r", "a", "m", "e", "T", "i", "m", "e", "s", "S", "t", "a", "r", "t">>

\* The scalar parameters a typed step keeps as attributes.
scalar_accessors(self) ==
    CASE self.variant = "TACsFromSegmentationStep" -> {"time_keyword", "verbose"}
      [] self.variant = "ResampleBloodTACStep" -> {"lin_fit_thresh_in_mins", "rescale_constant"}
      [] OTHER -> {}

\* The keyword under which the constructor hands each scalar to the base class.
scalar_keyword(accessor) ==
    IF accessor = "time_keyword" THEN "time_frame_keyword" ELSE accessor

scalar_values(accessor) ==
    CASE accessor = "time_keyword" -> {PyStr(S_FrameReferenceTime), PyStr(S_FrameTimesStart)}
      [] accessor = "verbose" -> {PyBool(FALSE), PyBool(TRUE)}
      [] accessor = "lin_fit_thresh_in_mins" -> {PyFloat(S_30), PyFloat(S_60)}
      [] accessor = "rescale_constant" -> {PyFloat(S_37000), PyFloat(S_1)}

\* self.<scalar> = value: the scalars are plain attributes, so the assignment
\* binds the attribute and runs no other code.
set_scalar(self, accessor, value) == [self EXCEPT ![accessor] = value]

\* step.<scalar> = value
SetScalar ==
    \E accessor \in scalar_accessors(step) :
        \E value \in scalar_values(accessor) :
            /\ step' = set_scalar(step, accessor, value)
            /\ raised' = "none"
            /\ warned' = FALSE
            /\ last' = [op |-> "set_scalar", accessor |-> accessor, value |-> value]
            /\ trace' = NoTrace
            /\ UNCHANGED <<sender, call, heap>>

\* the values assigned to out_path_and_prefix: tuples of one, two and three
\* strings, a list of two, a str of two characters and a longer one, None
OutPathAndPrefixValues ==
    <<PyTuple(<<S_out, S_X>>), PyTuple(<<S_out>>), PyTuple(<<S_out, S_X, S_X>>),
      PyList(<<S_out, S_X>>), PyStr(S_ab), PyStr(S_out), PyNone>>

\* step.out_path_and_prefix = value
SetOutPathAndPrefix ==
    /\ step.variant = "TACsFromSegmentationStep"
    /\ \E i \in 1..Len(OutPathAndPrefixValues) :
           LET value == OutPathAndPrefixValues[i]
               res == TACsFromSegmentationStep_set_out_path_and_prefix(step, value)
           IN  /\ step' = (IF res.raised = "none" THEN res.value ELSE step)
               /\ raised' = res.raised
               /\ warned' = FALSE
               /\ last' = [op |-> "set_out_path_and_prefix", value |-> value]
               /\ trace' = NoTrace
               /\ UNCHANGED <<sender, call, heap>>

\* step = ResampleBloodTACStep('', '', '', lin_fit_thresh_in_mins, rescale_constant)
NewResampleBloodTACStepWith ==
    \E lin_fit_thresh_in_mins \in scalar_values("lin_fit_thresh_in_mins"),
       rescale_constant \in scalar_values("rescale_constant") :
        LET built == ResampleBloodTACStep_init(EmptyStr, EmptyStr, EmptyStr,
                                               lin_fit_thresh_in_mins, rescale_constant)
        IN  /\ step' = built.value
            /\ raised' = built.raised
            /\ warned' = FALSE
            /\ last' = [op |-> "new_blood", lin_fit_thresh_in_mins |-> lin_fit_thresh_in_mins,
                        rescale_constant |-> rescale_constant]
            /\ trace' = NoTrace
            /\ UNCHANGED <<sender, call, heap>>

\* repr(step)
Repr ==
    /\ step.variant # "ImageToImageStep"
    /\ last' = [op |-> "repr",
                shown |-> IF step.variant = "TACsFromSegmentationStep"
                          THEN TACsFromSegmentationStep_repr(step)
                          ELSE ResampleBloodTACStep_repr(step)]
    /\ raised' = "none"
    /\ warned' = FALSE
    /\ trace' = NoTrace
    /\ UNCHANGED <<step, sender, call, heap>>

\* the predecessors a step may be linked to: one of each variant
Senders ==
    {default_moco_frames_above_mean(PyBool(FALSE), EmptyDict).made.value,
     default_write_tacs_from_segmentation_rois.value,
     default_resample_blood_tac_on_scanner_times.value}

InitTyped ==
    /\ step \in InitialSteps
    /\ sender \in Senders
    /\ last = [op |-> "init"]
    /\ raised = "none"
    /\ warned = FALSE
    /\ call = NoCall
    /\ trace = NoTrace
    /\ heap = NoHeap

NextTyped ==
    \/ SetAccessor
    \/ SetScalar
    \/ SetOutPathAndPrefix
    \/ NewResampleBloodTACStepWith
    \/ Repr
    \/ SenderSetOutput
    \/ Link
    \/ InferPlain
    \/ Execute

SpecTyped == InitTyped /\ [][NextTyped]_vars

\* C11: for every variant, set_input_as_output_from with a predecessor that
\* is not an image-to-image step signals an error, and the step (its input
\* path and every other argument) is the same after the failed call.
C11_LinkToOtherVariantFails ==
    [][(last'.op = "link" /\ ~IsImage(sender)) =>
          /\ raised' # "none"
          /\ step' = step
          /\ sender' = sender]_vars

C11_Witness ==
    /\ last.op = "link" /\ raised = "NotImplementedError"
    /\ IsImage(step) /\ IsBlood(sender)
    /\ step.input_image_path = P_SCEN
    /\ step.output_image_path = P_OUT

\* C15: on a typed step every named accessor, path slot or scalar, reads the
\* value the argument storage holds for its parameter, and the wrapped
\* function receives on execute the value the accessor reads.
C15_AccessorsReadStorage ==
    ~IsImage(step) =>
        /\ \A accessor \in path_accessors(step) :
               step.kwargs[accessor_keyword(step, accessor)] = PyStr(get_accessor(step, accessor))
        /\ \A accessor \in scalar_accessors(step) :
               /\ step.kwargs[scalar_keyword(accessor)] = step[accessor]
               /\ last.op = "execute" =>
                      trace[1].kwargs[scalar_keyword(accessor)] = step[accessor]

\* C23: assigning out_path_and_prefix a tuple (out_dir, out_prefix) sets
\* out_tacs_dir and out_tacs_prefix and the keyword entries out_tac_dir and
\* out_tac_prefix; assigning any value that is not a tuple of two items raises
\* ValueError and leaves the step as it was.
C23_PairOrValueError ==
    [][(last'.op = "set_out_path_and_prefix") =>
          IF last'.value.t = "tuple" /\ Len(last'.value.v) = 2
          THEN /\ raised' = "none"
               /\ step' = [step EXCEPT
                      !._out_tacs_path = last'.value.v[1],
                      !._out_tacs_prefix = last'.value.v[2],
                      !.kwargs = [@ EXCEPT !["out_tac_dir"] = PyStr(last'.value.v[1]),
                                           !["out_tac_prefix"] = PyStr(last'.value.v[2])]]
          ELSE /\ raised' = "ValueError"
               /\ step' = step]_vars

\* C24: the step constructed from exactly the name=value pairs that the
\* __repr__ of a tissue-curve or blood-curve step lists has the path slots, the
\* scalar parameters and the keyword arguments of the original step.
C24_ReprRecreates ==
    last.op = "repr" =>
        LET again == IF IsTACs(step) THEN TACsFromSegmentationStep_from_keywords(last.shown)
                                     ELSE ResampleBloodTACStep_from_keywords(last.shown)
        IN  again = Returned(step)

----------------------------------------------------------------------------
(* Argument storage as objects: the heap holds the keyword dictionaries,   *)
(* and a step holds the address of its own in kwargs.  A predecessor A     *)
(* (sender) and a step B (step) are built and then used in any order.      *)

\* A construction that keeps a dictionary already holding the same defaults.
Mutant_construct_keeps_defaults(h, made) ==
    IF \E ref \in 1..Len(h) : h[ref] = made.kwargs
    THEN [heap |-> h,
          obj |-> [made EXCEPT !.kwargs = CHOOSE ref \in 1..Len(h) : h[ref] = made.kwargs]]
    ELSE [heap |-> Append(h, made.kwargs), obj |-> [made EXCEPT !.kwargs = Len(h) + 1]]

\* cls(**override_dict), cls(input_image_path='', ...): the keywords of a call
\* are collected in a dictionary made for that call, which the new step keeps.
construct(h, made) ==
    [heap |-> Append(h, made.kwargs), obj |-> [made EXCEPT !.kwargs = Len(h) + 1]]

\* the step with the contents of its dictionary in the place of the address
deref(h, self) == [self EXCEPT !.kwargs = h[self.kwargs]]

\* self.kwargs[key] = value changes the dictionary in place; the step keeps
\* the address it has
store(h, self, after) == [h EXCEPT ![self.kwargs] = after.kwargs]

rebind(self, after) == [after EXCEPT !.kwargs = self.kwargs]

\* the pairs (A, B) of presets: two steps of the same preset, and an
\* image-to-image predecessor with each typed step
SharePairs ==
    LET moco == default_moco_frames_above_mean(PyBool(FALSE), EmptyDict).made.value
        tacs == default_write_tacs_from_segmentation_rois.value
        blood == default_resample_blood_tac_on_scanner_times.value
    IN  {<<moco, moco>>, <<tacs, tacs>>, <<blood, blood>>, <<moco, tacs>>, <<moco, blood>>}

BuiltPairs ==
    {LET a == construct(NoHeap, pair[1])
         b == construct(a.heap, pair[2])
     IN  [sender |-> a.obj, step |-> b.obj, heap |-> b.heap] : pair \in SharePairs}

InitShare ==
    /\ \E built \in BuiltPairs :
           /\ sender = built.sender
           /\ step = built.step
           /\ heap = built.heap
    /\ last = [op |-> "init"]
    /\ raised = "none"
    /\ warned = FALSE
    /\ call = NoCall
    /\ trace = NoTrace

\* A method of A or of B has run on the step and left it as res says.
ObjApply(on, res, op, detail) ==
    LET self == IF on = "A" THEN sender ELSE step
        after == IF res.raised = "none" THEN res.value ELSE deref(heap, self)
    IN  /\ heap' = store(heap, self, after)
        /\ IF on = "A"
           THEN sender' = rebind(self, after) /\ step' = step
           ELSE step' = rebind(self, after) /\ sender' = sender
        /\ raised' = res.raised
        /\ warned' = FALSE
        /\ last' = [op |-> op, on |-> on, detail |-> detail]
        /\ trace' = NoTrace
        /\ UNCHANGED call

\* the values assigned to a path accessor here: the non-empty, well-named ones
ShareValues(self, accessor) == accessor_values(self, accessor) \ {EmptyStr, P_NOTOK}

\* A.<accessor> = value, B.<accessor> = value
ObjSetAccessor ==
    \E on \in {"A", "B"} :
        LET self == deref(heap, IF on = "A" THEN sender ELSE step)
        IN  \E accessor \in path_accessors(self) :
                \E value \in ShareValues(self, accessor) :
                    ObjApply(on, Returned(set_accessor(self, accessor, value)),
                             "set", <<accessor, value>>)

\* B.set_input_as_output_from(A)
ObjLink ==
    ObjApply("B", set_input_as_output_from(deref(heap, step), deref(heap, sender)),
             "link", << >>)

\* A.infer_outputs_from_inputs('/out', 'preproc'), and the same of B
ObjInfer ==
    \E on \in {"A", "B"} :
        LET self == deref(heap, IF on = "A" THEN sender ELSE step)
        IN  ObjApply(on, infer_outputs_from_inputs(self, S_out, S_preproc, S_pet,
                                                   S_niigz, << >>),
                     "infer", << >>)

NextShare ==
    \/ ObjSetAccessor
    \/ ObjLink
    \/ ObjInfer

SpecShare == InitShare /\ [][NextShare]_vars

\* C20: linking retains no edge and no storage is shared.  Whatever is done
\* to A after B was linked to it (an assignment to A's output path, A's
\* inference) leaves B, its input path and its arguments, as it was; whatever
\* is done to B leaves A as it was; this holds also when A and B were built
\* by the same preset.
C20_NoEdgeNoSharedStorage ==
    [][/\ last'.on = "A" => deref(heap', step') = deref(heap, step)
       /\ last'.on = "B" => deref(heap', sender') = deref(heap, sender)]_vars

C20_Witness ==
    /\ last.op = "infer" /\ last.on = "A" /\ raised = "none"
    /\ IsImage(sender) /\ IsImage(step)
    /\ step.input_image_path = P_OUT
    /\ sender.output_image_path # P_OUT
    /\ step.kwargs # sender.kwargs

----------------------------------------------------------------------------
(* The naming helpers on their own: a call is drawn with its arguments and *)
(* then applied.                                                           *)

\* the longest subject or session identifier
MaxIdLen == 3
\* the largest number of underscore-separated tokens in a parsed file name
MaxTokens == 3

S_dotdot == <<".", ".", "/">>
S_a_b == <<"a", "/", "b">>
T_sub01 == S_sub \o <<"0", "1">>
T_ses02 == S_ses \o <<"0", "2">>
T_petnii == <<"p", "e", "t", ".", "n", "i", "i">>
S_data == <<"/", "d", "a", "t", "a", "/">>

\* identifiers: digits and underscores between digits, and three identifiers
\* that repeat a marker or hold a path separator
IdChars == {"0", "_"}
Ids ==
    {s \in UNION {[1..n -> IdChars] : n \in 1..MaxIdLen} : s[1] = "0" /\ s[Len(s)] = "0"}
        \cup {S_sub \o <<"0">>, S_ses \o <<"0">>, <<"a", "/", "0">>}

BidsDescPool == {<<S_run, S_1>>, <<S_desc, S_X>>}
BidsExtras == seqs_without_repeats(BidsDescPool, MaxDesc)
BidsSuffixExts == {<<S_pet, S_niigz>>, <<S_blood, S_tsv>>, <<S_a_b, EmptyStr>>}
BidsRoots == {S_out, S_dotdot}
Modalities == {S_preproc, S_tacs}

\* file names: up to MaxTokens tokens, joined by "_" or glued, in a directory or not
TokenPool == {T_sub01, T_ses02, T_petnii}
TokenSeqs == UNION {[1..n -> TokenPool] : n \in 0..MaxTokens}
ParsePaths ==
    {dir \o str_join(glue, toks) :
         dir \in {EmptyStr, S_data, S_sep \o T_sub01 \o S_us \o T_ses02 \o S_sep},
         glue \in {S_us, EmptyStr}, toks \in TokenSeqs}

Pending == [raised |-> "pending", value |-> << >>]

BidsCall(fn, path, sub_id, ses_id, root, modality, suffix, ext, extra_desc) ==
    [fn |-> fn, path |-> path, sub_id |-> sub_id, ses_id |-> ses_id, root |-> root,
     modality |-> modality, suffix |-> suffix, ext |-> ext, extra_desc |-> extra_desc,
     done |-> FALSE, res |-> Pending]

BidsCalls ==
    {BidsCall("parse", q, EmptyStr, EmptyStr, EmptyStr, EmptyStr, EmptyStr, EmptyStr, << >>) :
         q \in ParsePaths}
    \cup {BidsCall("filename", EmptyStr, s, e, EmptyStr, EmptyStr, se[1], se[2], x) :
              s \in Ids, e \in Ids, se \in BidsSuffixExts, x \in BidsExtras}
    \cup {BidsCall("dir_path", EmptyStr, s, e, r, m, EmptyStr, EmptyStr, << >>) :
              s \in Ids, e \in Ids, r \in BidsRoots, m \in Modalities}
    \cup {BidsCall("filepath", EmptyStr, s, e, r, m, se[1], se[2], x) :
              s \in Ids, e \in Ids, r \in BidsRoots, m \in Modalities,
              se \in BidsSuffixExts, x \in BidsExtras}

InitBids ==
    /\ step = default_threshold_cropping(EmptyDict).made.value
    /\ sender = default_moco_frames_above_mean(PyBool(FALSE), EmptyDict).made.value
    /\ last = [op |-> "init"]
    /\ raised = "none"
    /\ warned = FALSE
    /\ call \in BidsCalls
    /\ trace = NoTrace
    /\ heap = NoHeap

Apply(fn, res) ==
    /\ call.fn = fn
    /\ ~call.done
    /\ call' = [call EXCEPT !.done = TRUE, !.res = res]
    /\ UNCHANGED <<step, sender, last, raised, warned, trace, heap>>

ApplyParse == Apply("parse", parse_path_to_get_subject_and_session_id(call.path))

ApplyFilename ==
    Apply("filename", Returned(gen_bids_like_filename(call.sub_id, call.ses_id,
                                   call.suffix, call.ext, call.extra_desc)))

ApplyDirPath ==
    Apply("dir_path", Returned(gen_bids_like_dir_path(call.sub_id, call.ses_id,
                                   call.modality, call.root)))

ApplyFilepath ==
    Apply("filepath", Returned(gen_bids_like_filepath(call.sub_id, call.ses_id, call.root,
                                   call.modality, call.suffix, call.ext, call.extra_desc)))

NextBids == ApplyParse \/ ApplyFilename \/ ApplyDirPath \/ ApplyFilepath

SpecBids == InitBids /\ [][NextBids]_vars

----------------------------------------------------------------------------
(* Properties of the naming helpers.                                       *)

CallDone(fn) == call.fn = fn /\ call.done

\* an identifier the parser can read back: not empty, no underscore, no path
\* separator, and free of the marker that precedes it
PlainId(id, marker) ==
    /\ id # EmptyStr
    /\ ~str_contains(id, S_us)
    /\ ~str_contains(id, S_sep)
    /\ ~str_contains(id, marker)

\* no path separator in the suffix, the extension or any descriptor
NameWithoutSeparator ==
    /\ ~str_contains(call.suffix \o call.ext, S_sep)
    /\ \A i \in 1..Len(call.extra_desc) :
           ~str_contains(call.extra_desc[i][1] \o call.extra_desc[i][2], S_sep)

ParsedBack == parse_path_to_get_subject_and_session_id(call.res.value)

\* C8 as stated: for every non-empty (sub_id, ses_id), every suffix and
\* extension and any extra descriptors, parsing the synthesised file name or
\* file path gives back exactly (sub_id, ses_id).
C8_AsStated ==
    ((CallDone("filename") \/ CallDone("filepath"))
        /\ call.sub_id # EmptyStr /\ call.ses_id # EmptyStr)
        => ParsedBack = Returned(<<call.sub_id, call.ses_id>>)

\* C8: when neither identifier holds an underscore or a path separator,
\* sub_id does not contain "sub-", ses_id does not contain "ses-", and the
\* suffix, extension and descriptors hold no path separator, parsing the
\* synthesised file name or file path gives back exactly (sub_id, ses_id).
C8_RoundTripForPlainIds ==
    ((CallDone("filename") \/ CallDone("filepath"))
        /\ PlainId(call.sub_id, S_sub) /\ PlainId(call.ses_id, S_ses)
        /\ NameWithoutSeparator)
        => ParsedBack = Returned(<<call.sub_id, call.ses_id>>)

C8_Witness ==
    /\ CallDone("filepath")
    /\ call.sub_id = <<"0">> /\ call.ses_id = <<"0", "0">>
    /\ Len(call.extra_desc) = 2
    /\ ParsedBack = Returned(<<call.sub_id, call.ses_id>>)

\* the file name starts with two underscore-delimited tokens, sub-... then ses-...
StartsWithSubThenSes(filename) ==
    LET tokens == str_split(filename, S_us)
    IN  /\ Len(tokens) >= 2
        /\ str_startswith(tokens[1], S_sub)
        /\ str_startswith(tokens[2], S_ses)

\* C9: the parser returns (subject_id, session_id) only when the file name
\* begins with two adjacent underscore-delimited tokens prefixed sub- and
\* ses-; for every other file name it returns ("XXXX", "XX"), and it never
\* raises.
C9_PlaceholderUnlessPrefixed ==
    CallDone("parse") =>
        LET filename == pathlib_name(call.path)
        IN  /\ call.res.raised = "none"
            /\ call.res.value = IF StartsWithSubThenSes(filename)
                                THEN PrefixIds(filename)
                                ELSE <<S_XXXX, S_XX>>

\* C10: the synthesised path is
\* root/sub-<id>/ses-<id>/<modality>/sub-<id>_ses-<id>_<key>-<value>..._<suffix><ext>,
\* its directory part is gen_bids_like_dir_path of the same ids, root and
\* modality, and there is one <key>-<value> token per descriptor, in the
\* order the descriptors were given, between the ses token and the suffix.
C10_PathForm ==
    CallDone("filepath") =>
        LET filedir == gen_bids_like_dir_path(call.sub_id, call.ses_id, call.modality, call.root)
            filename == S_sub \o call.sub_id \o S_us \o S_ses \o call.ses_id
                            \o DescriptorTokens(call.extra_desc)
                            \o S_us \o call.suffix \o call.ext
        IN  /\ filedir = UnderRoot(call.root) \o S_sub \o call.sub_id \o S_sep
                             \o S_ses \o call.ses_id \o S_sep \o call.modality
            /\ call.res = Returned(filedir \o S_sep \o filename)

C10_Witness ==
    /\ CallDone("filepath")
    /\ call.extra_desc = <<<<S_run, S_1>>, <<S_desc, S_X>>>>
    /\ call.root = S_out
    /\ str_contains(call.res.value,
           S_us \o S_run \o S_dash \o S_1 \o S_us \o S_desc \o S_dash \o S_X \o S_us)

----------------------------------------------------------------------------
(* A chain of image-to-image steps: the first step is given its input      *)
(* path; then, in order, the current step infers its output, the next step *)
(* is created and is linked to it.                                         *)

\* the largest number of steps in a chain
MaxChain == 3

\* the steps a chain is made of
ChainPresets ==
    {default_threshold_cropping(EmptyDict).made.value,
     default_moco_frames_above_mean(PyBool(FALSE), EmptyDict).made.value}

\* the suffix and extension every inference of one chain is called with
ChainSuffixExts == {<<S_pet, S_niigz>>, <<S_a_b, EmptyStr>>}

\* **extra_desc of one inference: none, desc='X'
ChainExtras == {<< >>, <<<<S_desc, S_X>>>>}

\* the input path of the first step: a file name of ParsePaths under /data/
ChainPaths == {q \in ParsePaths : str_startswith(q, S_data)}

ChainRun(path, suffix, ext) ==
    [fn |-> "chain", path |-> path, suffix |-> suffix, ext |-> ext, pos |-> 1]

ChainRuns == {ChainRun(q, se[1], se[2]) : q \in ChainPaths, se \in ChainSuffixExts}

\* first = preset(); first.input_image_path = path
InitChain ==
    /\ call \in ChainRuns
    /\ \E first \in ChainPresets : step = ImageToImageStep_set_input_image_path(first, call.path)
    /\ sender = default_moco_frames_above_mean(PyBool(FALSE), EmptyDict).made.value
    /\ last = [op |-> "start"]
    /\ raised = "none"
    /\ warned = FALSE
    /\ trace = NoTrace
    /\ heap = NoHeap

\* current.infer_outputs_from_inputs(out_dir, 'preproc', suffix, ext, **extra_desc)
ChainInfer ==
    /\ call.fn = "chain"
    /\ last.op \in {"start", "link"}
    /\ InferWith(OutDirs, {<<S_preproc, call.suffix, call.ext>>}, ChainExtras)

\* the step after the current one is created; the current one becomes its
\* predecessor
ChainAdvance ==
    /\ call.fn = "chain"
    /\ last.op = "infer" /\ raised = "none"
    /\ call.pos < MaxChain
    /\ sender' = step
    /\ step' \in ChainPresets
    /\ call' = [call EXCEPT !.pos = @ + 1]
    /\ last' = [op |-> "advance"]
    /\ raised' = "none"
    /\ warned' = FALSE
    /\ trace' = NoTrace
    /\ UNCHANGED heap

\* next.set_input_as_output_from(current)
ChainLink ==
    /\ call.fn = "chain"
    /\ last.op = "advance"
    /\ Link

NextChain ==
    \/ ChainInfer
    \/ ChainAdvance
    \/ ChainLink

SpecChain == InitChain /\ [][NextChain]_vars

\* the identifiers the parser reads from the path the chain started with
ChainIds == parse_path_to_get_subject_and_session_id(call.path)

HasSeparator(s) == str_contains(s, S_sep)

----------------------------------------------------------------------------
(* cli/cli_vat_processing.py: the petpal-vat-proc command and the protocol *)
(* it runs for a subject.                                                   *)

PyInt(txt) == [t |-> "int", v |-> txt]

\* s.replace(old, new)
str_replace(s, old, new) == str_join(new, str_split(s, old))

\* rename_subs(sub): the subject part and the session part.  A name that
\* holds neither VAT nor PIB falls off the end of the function, which returns
\* None, written << >> here.
rename_subs(sub) ==
    IF str_contains(sub, <<"V", "A", "T">>) THEN Returned(<<S_sub \o sub, EmptyStr>>)
    ELSE IF str_contains(sub, <<"P", "I", "B">>)
    THEN LET parts == str_split(sub, S_us)
         IN  IF Len(parts) # 2 THEN Raised("ValueError")
             ELSE Returned(<<S_sub \o str_replace(parts[1], S_dash, EmptyStr),
                             S_ses \o parts[2]>>)
    ELSE Returned(<< >>)

\* the names vat_protocol binds before it looks for the input files
vat_locals(subjstring, pet_dir, reg_dir) ==
    LET renamed == rename_subs(subjstring)
    IN  IF renamed.raised # "none" THEN renamed
        ELSE IF renamed.value = << >> THEN Raised("TypeError")
        ELSE LET sub == renamed.value[1]
                 ses == renamed.value[2]
                 bay == reg_dir \o S_sep \o subjstring \o <<"_", "B", "a", "y", "3", "p", "r", "i", "s", "m", "a", "/">>
                            \o subjstring \o <<"_", "B", "a", "y", "3", "p", "r", "i", "s", "m", "a">>
                 plain == reg_dir \o S_sep \o sub \o S_sep \o sub
                 names == [sub |-> sub, ses |-> ses,
                           sub_id |-> str_replace(sub, S_sub, EmptyStr),
                           ses_id |-> str_replace(ses, S_ses, EmptyStr),
                           segmentation_label_file |-> <<"/", "h", "o", "m", "e", "/", "u", "s", "r", "/", "g", "o", "l", "d", "m", "a", "n", "n", "/", "d", "s", "e", "g", ".", "t", "s", "v">>]
             IN  Returned(
                 IF ses = EmptyStr
                 THEN names @@
                      [out_prefix |-> sub,
                       pet_file |-> pet_dir \o S_sep \o sub \o <<"/", "p", "e", "t", "/">> \o sub
                                        \o <<"_", "p", "e", "t", ".", "n", "i", "i", ".", "g", "z">>,
                       freesurfer_file |-> plain \o <<"_", "a", "p", "a", "r", "c", "+", "a", "s", "e", "g", ".", "n", "i", "i">>,
                       brainstem_segmentation_file |-> plain \o <<"_", "b", "r", "a", "i", "n", "s", "t", "e", "m", ".", "n", "i", "i">>,
                       mprage_file |-> plain \o <<"_", "m", "p", "r", ".", "n", "i", "i">>,
                       atlas_warp_file |->
                           reg_dir \o S_sep \o sub \o <<"/", "P", "R", "I", "S", "M", "A", "_", "T", "R", "I", "O", "_", "P", "I", "B", "_", "N", "L", "_", "A", "N", "T", "S", "_", "N", "o", "T", "2", "/">>
                               \o sub \o <<"_", "m", "p", "r", "_", "t", "o", "_", "P", "R", "I", "S", "M", "A", "_", "T", "R", "I", "O", "_", "P", "I", "B", "_", "N", "L", "_", "T", "1", "_", "A", "N", "T", "S", "w", "a", "r", "p", ".", "n", "i", "i", ".", "g", "z">>,
                       mpr_brain_mask_file |-> plain \o <<"_", "m", "p", "r", "_", "b", "r", "a", "i", "n", "_", "m", "a", "s", "k", ".", "n", "i", "i">>]
                 ELSE names @@
                      [out_prefix |-> sub \o S_us \o ses,
                       pet_file |-> pet_dir \o S_sep \o sub \o S_sep \o ses \o <<"/", "p", "e", "t", "/">>
                                        \o sub \o S_us \o ses \o <<"_", "t", "r", "c", "-", "1", "8", "F", "V", "A", "T", "_", "p", "e", "t", ".", "n", "i", "i", ".", "g", "z">>,
                       freesurfer_file |-> bay \o <<"_", "a", "p", "a", "r", "c", "+", "a", "s", "e", "g", ".", "n", "i", "i">>,
                       brainstem_segmentation_file |-> bay \o <<"_", "b", "r", "a", "i", "n", "s", "t", "e", "m", ".", "n", "i", "i">>,
                       mprage_file |-> bay \o <<"_", "m", "p", "r", ".", "n", "i", "i">>,
                       atlas_warp_file |->
                           reg_dir \o S_sep \o subjstring
                               \o <<"_", "B", "a", "y", "3", "p", "r", "i", "s", "m", "a", "/", "P", "R", "I", "S", "M", "A", "_", "T", "R", "I", "O", "_", "P", "I", "B", "_", "N", "L", "_", "A", "N", "T", "S", "_", "N", "o", "T", "2", "/">> \o subjstring
                               \o <<"_", "B", "a", "y", "3", "p", "r", "i", "s", "m", "a", "_", "m", "p", "r", "_", "t", "o", "_", "P", "R", "I", "S", "M", "A", "_", "T", "R", "I", "O", "_", "P", "I", "B", "_", "N", "L", "_", "T", "1", "_", "A", "N", "T", "S", "w", "a", "r", "p", ".", "n", "i", "i", ".", "g", "z">>,
                       mpr_brain_mask_file |-> bay \o <<"_", "m", "p", "r", "_", "b", "r", "a", "i", "n", "_", "m", "a", "s", "k", ".", "n", "i", "i">>])

\* real_files: the six files vat_protocol looks for, in the order of the list
real_files(names) ==
    <<names.pet_file, names.freesurfer_file, names.mprage_file,
      names.brainstem_segmentation_file, names.atlas_warp_file, names.mpr_brain_mask_file>>

\* vat_bids_filepath(suffix, folder, **extra_desc): the directory it makes and
\* the file path it returns; ext is '.nii.gz' where the call passes none
vat_bids_filepath(names, out_dir, suffix, folder, ext, extra_desc) ==
    [new_dir |-> gen_bids_like_dir_path(names.sub_id, names.ses_id, folder, out_dir),
     new_file |-> gen_bids_like_filepath(names.sub_id, names.ses_id, out_dir, folder,
                                         suffix, ext, extra_desc)]

\* the paths vat_protocol computes, whatever is skipped
vat_paths(names, out_dir) ==
    LET file(suffix, folder, ext, extra_desc) ==
            vat_bids_filepath(names, out_dir, suffix, folder, ext, extra_desc).new_file
        dir(modality) == gen_bids_like_dir_path(names.sub_id, names.ses_id, modality, out_dir)
        name(model) == gen_bids_like_filename(names.sub_id, names.ses_id, <<"f", "i", "t", "s">>, EmptyStr,
                                              <<<<<<"m", "o", "d", "e", "l">>, model>>>>)
    IN  [pet_cropped_file |-> file(S_pet, S_pet, S_niigz, <<<<<<"c", "r", "o", "p">>, <<"0", "0", "3">>>>>>),
         pet_moco_file |-> file(S_pet, S_pet, S_niigz, <<<<<<"m", "o", "c", "o">>, <<"w", "i", "n", "d", "o", "w", "e", "d">>>>>>),
         pet_reg_anat_file |-> file(S_pet, S_pet, S_niigz,
                                    <<<<<<"m", "o", "c", "o">>, <<"w", "i", "n", "d", "o", "w", "e", "d">>>>, <<<<"s", "p", "a", "c", "e">>, <<"m", "p", "r">>>>>>),
         vat_wm_ref_region_roi_file |-> file(<<"s", "e", "g">>, S_pet, S_niigz,
                                             <<<<S_desc, <<"R", "e", "f", "R", "e", "g", "i", "o", "n", "R", "O", "I">>>>>>),
         vat_wm_ref_segmentation_file |-> file(<<"s", "e", "g">>, S_pet, S_niigz,
                                               <<<<S_desc, <<"R", "e", "f", "R", "e", "g", "i", "o", "n", "S", "e", "g", "m", "e", "n", "t", "a", "t", "i", "o", "n">>>>>>),
         tac_save_dir |-> dir(S_tacs),
         wmref_tac_path |-> file(<<"t", "a", "c">>, S_tacs, S_tsv, <<<<<<"s", "e", "g">>, <<"W", "M", "R", "e", "f">>>>>>),
         mrtm_save_dir |-> dir(<<"m", "r", "t", "m", "_", "f", "i", "t", "s">>),
         km_save_dir |-> dir(S_km),
         mrtm_save_path |-> file(<<"f", "i", "t", "s">>, S_km, S_tsv, <<<<<<"m", "o", "d", "e", "l">>, <<"m", "r", "t", "m", "1">>>>>>),
         mrtm1_path |-> name(<<"m", "r", "t", "m", "1">>),
         logan_save_dir |-> dir(<<"l", "o", "g", "a", "n", "_", "f", "i", "t", "s">>),
         logan_save_path |-> file(<<"f", "i", "t", "s">>, S_km, S_tsv, <<<<<<"m", "o", "d", "e", "l">>, <<"a", "l", "t", "l", "o", "g", "a", "n">>>>>>),
         logan_path |-> name(<<"a", "l", "t", "l", "o", "g", "a", "n">>),
         wss_file_path |-> file(S_pet, S_pet, S_niigz,
                                <<<<<<"s", "p", "a", "c", "e">>, <<"m", "p", "r">>>>, <<S_desc, <<"W", "S", "S">>>>>>),
         suvr_file_path |-> file(S_pet, S_pet, S_niigz,
                                 <<<<<<"s", "p", "a", "c", "e">>, <<"m", "p", "r">>>>, <<S_desc, <<"S", "U", "V", "R">>>>>>),
         suvr_pvc_path |-> file(S_pet, S_pet, S_tsv,
                                <<<<<<"s", "p", "a", "c", "e">>, <<"m", "p", "r">>>>, <<<<"p", "v", "c">>, <<"S", "G", "T", "M">>>>,
                                  <<S_desc, <<"S", "U", "V", "R">>>>>>),
         pet_dir |-> dir(S_pet)]

\* the stage names vat_protocol tests against skip, in the order of the code
V_crop == <<"c", "r", "o", "p">>
V_moco == <<"m", "o", "c", "o">>
V_register == <<"r", "e", "g", "i", "s", "t", "e", "r">>
V_refregion == <<"r", "e", "f", "r", "e", "g", "i", "o", "n">>
V_tacs == <<"t", "a", "c", "s">>
V_mrtm1 == <<"m", "r", "t", "m", "1">>
V_logan == <<"l", "o", "g", "a", "n">>
V_suvr == <<"s", "u", "v", "r">>
V_pvc == <<"p", "v", "c">>

VatStages == <<V_crop, V_moco, V_register, V_refregion, V_tacs, V_mrtm1, V_logan, V_suvr, V_pvc>>

Mutant_stage_runs_when_named(name, skip) == name \in skip \/ name = V_crop

\* 'name' not in skip
stage_runs(name, skip) == name \notin skip

\* os.makedirs(new_dir, exist_ok=True)
os_makedirs(new_dir) == ExternalCall("os.makedirs", <<PyStr(new_dir)>>, [exist_ok |-> PyBool(TRUE)])

\* motion_target = (0,600)
motion_target == PyTuple(<<PyInt(<<"0">>), PyInt(<<"6", "0", "0">>)>>)

\* half_life = _HALFLIVES_['f18'], a constant of utils/image_io
half_life == [t |-> "name", v |-> <<"_", "H", "A", "L", "F", "L", "I", "V", "E", "S", "_", "[", "'", "f", "1", "8", "'", "]">>]

\* the directories made before the skip test of the stage, in order: one per
\* vat_bids_filepath call and one per os.makedirs call of the protocol
stage_prepares(name, paths) ==
    LET pet == os_makedirs(paths.pet_dir)
    IN  IF name \in {V_crop, V_moco, V_register} THEN <<pet>>
        ELSE IF name = V_refregion THEN <<pet, pet>>
        ELSE IF name = V_tacs THEN <<os_makedirs(paths.tac_save_dir)>>
        ELSE IF name = V_mrtm1
        THEN <<os_makedirs(paths.tac_save_dir), os_makedirs(paths.km_save_dir),
               os_makedirs(paths.km_save_dir), os_makedirs(paths.mrtm_save_dir)>>
        ELSE IF name = V_logan
        THEN <<os_makedirs(paths.km_save_dir), os_makedirs(paths.logan_save_dir)>>
        ELSE IF name = V_suvr THEN <<pet, pet>>
        ELSE << >>

\* the calls under the skip test of the stage, in order
stage_calls(name, names, paths) ==
    IF name = V_crop
    THEN <<ExternalCall("image_operations_4d.SimpleAutoImageCropper", << >>,
               [input_image_path |-> PyStr(names.pet_file),
                out_image_path |-> PyStr(paths.pet_cropped_file),
                thresh_val |-> PyFloat(<<"0", ".", "0", "3">>)])>>
    ELSE IF name = V_moco
    THEN <<ExternalCall("motion_corr.windowed_motion_corr_to_target", << >>,
               [input_image_path |-> PyStr(paths.pet_cropped_file),
                out_image_path |-> PyStr(paths.pet_moco_file),
                motion_target_option |-> motion_target,
                w_size |-> PyInt(<<"3", "0", "0">>)])>>
    ELSE IF name = V_register
    THEN <<ExternalCall("register.register_pet", << >>,
               [input_reg_image_path |-> PyStr(paths.pet_moco_file),
                out_image_path |-> PyStr(paths.pet_reg_anat_file),
                reference_image_path |-> PyStr(names.mprage_file),
                motion_target_option |-> motion_target,
                half_life |-> half_life,
                verbose |-> PyBool(TRUE),
                aff_metric |-> PyStr(<<"m", "a", "t", "t", "e", "s">>),
                type_of_transform |-> PyStr(<<"D", "e", "n", "s", "e", "R", "i", "g", "i", "d">>)])>>
    ELSE IF name = V_refregion
    THEN <<ExternalCall("segmentation_tools.vat_wm_ref_region", << >>,
               [input_segmentation_path |-> PyStr(names.freesurfer_file),
                out_segmentation_path |-> PyStr(paths.vat_wm_ref_region_roi_file)]),
           ExternalCall("segmentation_tools.vat_wm_region_merge", << >>,
               [wmparc_segmentation_path |-> PyStr(names.freesurfer_file),
                bs_segmentation_path |-> PyStr(names.brainstem_segmentation_file),
                wm_ref_segmentation_path |-> PyStr(paths.vat_wm_ref_region_roi_file),
                out_image_path |-> PyStr(paths.vat_wm_ref_segmentation_file)])>>
    ELSE IF name = V_tacs
    THEN <<ExternalCall("image_operations_4d.write_tacs", << >>,
               [input_image_path |-> PyStr(paths.pet_reg_anat_file),
                label_map_path |-> PyStr(names.segmentation_label_file),
                segmentation_image_path |-> PyStr(paths.vat_wm_ref_segmentation_file),
                out_tac_dir |-> PyStr(paths.tac_save_dir),
                verbose |-> PyBool(TRUE),
                out_tac_prefix |-> PyStr(names.out_prefix),
                time_frame_keyword |-> PyStr(<<"F", "r", "a", "m", "e", "T", "i", "m", "e", "s", "S", "t", "a", "r", "t">>)])>>
    ELSE IF name = V_mrtm1
    THEN <<ExternalCall("rtm_analysis.MultiTACRTMAnalysis", << >>,
               [ref_tac_path |-> PyStr(paths.wmref_tac_path),
                roi_tacs_dir |-> PyStr(paths.tac_save_dir),
                output_directory |-> PyStr(paths.mrtm_save_dir),
                output_filename_prefix |-> PyStr(paths.mrtm1_path),
                method |-> PyStr(<<"m", "r", "t", "m">>)]),
           ExternalCall("mrtm1_analysis.run_analysis", << >>,
               [t_thresh_in_mins |-> PyInt(<<"1", "0">>)]),
           ExternalCall("mrtm1_analysis.save_analysis", << >>, EmptyDict),
           ExternalCall("km_regional_fits_to_tsv", << >>,
               [fit_results_dir |-> PyStr(paths.mrtm_save_dir),
                out_tsv_dir |-> PyStr(paths.mrtm_save_path)])>>
    ELSE IF name = V_logan
    THEN <<ExternalCall("graphical_analysis.MultiTACGraphicalAnalysis", << >>,
               [input_tac_path |-> PyStr(paths.wmref_tac_path),
                roi_tacs_dir |-> PyStr(paths.tac_save_dir),
                output_directory |-> PyStr(paths.logan_save_dir),
                output_filename_prefix |-> PyStr(paths.logan_path),
                method |-> PyStr(<<"a", "l", "t", "_", "l", "o", "g", "a", "n">>),
                fit_thresh_in_mins |-> PyInt(<<"1", "0">>)]),
           ExternalCall("graphical_model.run_analysis", << >>, EmptyDict),
           ExternalCall("graphical_model.save_analysis", << >>, EmptyDict),
           ExternalCall("km_regional_fits_to_tsv", << >>,
               [fit_results_dir |-> PyStr(paths.logan_save_dir),
                out_tsv_dir |-> PyStr(paths.logan_save_path)])>>
    ELSE IF name = V_suvr
    THEN <<ExternalCall("useful_functions.weighted_series_sum", << >>,
               [input_image_4d_path |-> PyStr(paths.pet_reg_anat_file),
                half_life |-> half_life,
                verbose |-> PyBool(TRUE),
                start_time |-> PyInt(<<"1", "8", "0", "0">>),
                end_time |-> PyInt(<<"7", "2", "0", "0">>),
                out_image_path |-> PyStr(paths.wss_file_path)]),
           ExternalCall("image_operations_4d.suvr", << >>,
               [input_image_path |-> PyStr(paths.wss_file_path),
                segmentation_image_path |-> PyStr(paths.vat_wm_ref_segmentation_file),
                ref_region |-> PyInt(<<"1">>),
                out_image_path |-> PyStr(paths.suvr_file_path),
                verbose |-> PyBool(TRUE)])>>
    ELSE <<os_makedirs(paths.pet_dir),
           ExternalCall("sgtm.Sgtm", << >>,
               [input_image_path |-> PyStr(paths.suvr_file_path),
                segmentation_image_path |-> PyStr(paths.vat_wm_ref_segmentation_file),
                fwhm |-> PyFloat(<<"4", ".", "2">>),
                out_tsv_path |-> PyStr(paths.suvr_pvc_path)])>>

\* one stage of vat_protocol: the path computations with the directories they
\* make, then the stage's calls unless its name is in skip
vat_stage(name, names, paths, skip) ==
    [prepared |-> stage_prepares(name, paths),
     runs |-> stage_runs(name, skip),
     called |-> IF stage_runs(name, skip) THEN stage_calls(name, names, paths) ELSE << >>]

\* the directories main passes for a subject: chosen by the prefix of the
\* name; a name with none of the prefixes leaves pet_dir and reg_dir as they
\* were (<< >>: not bound yet)
main_site_dirs(sub, bound) ==
    IF list_head(sub, 6) = <<"V", "A", "T", "D", "Y", "S">>
    THEN <<<<"/", "d", "a", "t", "a", "/", "n", "o", "r", "r", "i", "s", "/", "d", "a", "t", "a", "1", "/", "d", "a", "t", "a", "_", "a", "r", "c", "h", "i", "v", "e", "/", "V", "A", "T", "D", "Y", "S">>,
           <<"/", "e", "x", "p", "o", "r", "t", "/", "s", "c", "r", "a", "t", "c", "h", "1", "/", "R", "e", "g", "i", "s", "t", "r", "a", "t", "i", "o", "n", "/", "V", "A", "T", "D", "Y", "S">>>>
    ELSE IF list_head(sub, 5) = <<"V", "A", "T", "N", "L">>
    THEN <<<<"/", "d", "a", "t", "a", "/", "n", "o", "r", "r", "i", "s", "/", "d", "a", "t", "a", "1", "/", "d", "a", "t", "a", "_", "a", "r", "c", "h", "i", "v", "e", "/", "V", "A", "T", "N", "L">>,
           <<"/", "d", "a", "t", "a", "/", "n", "o", "r", "r", "i", "s", "/", "d", "a", "t", "a", "1", "/", "R", "e", "g", "i", "s", "t", "r", "a", "t", "i", "o", "n", "/", "V", "A", "T", "N", "L">>>>
    ELSE IF list_head(sub, 3) = <<"P", "I", "B">>
    THEN <<<<"/", "d", "a", "t", "a", "/", "j", "s", "p", "/", "h", "u", "m", "a", "n", "2", "/", "B", "i", "d", "s", "D", "a", "t", "a", "s", "e", "t", "/", "P", "I", "B">>,
           <<"/", "d", "a", "t", "a", "/", "j", "s", "p", "/", "h", "u", "m", "a", "n", "2", "/", "R", "e", "g", "i", "s", "t", "r", "a", "t", "i", "o", "n", "/", "P", "I", "B", "_", "F", "S", "7", "3", "_", "A", "N", "T", "S">>>>
    ELSE bound

\* subs[:1]: the participants main loops over
main_loop_subjects(subs) == list_head(subs, 1)

\* participant names: the three sites main knows and one it does not
VatSubjects == {<<"V", "A", "T", "D", "Y", "S", "1">>, <<"V", "A", "T", "N", "L", "2">>, <<"P", "I", "B", "1", "-", "2", "_", "V", "1">>, <<"C", "T", "L", "3">>}

MaxSubjects == 2

\* the participant_id column of the subjects file
VatSubjectFiles == UNION {[1..n -> VatSubjects] : n \in 0..MaxSubjects}

\* what --skip may name: the stages and one name that is no stage
VatSkipNames == {VatStages[k] : k \in 1..Len(VatStages)} \cup {<<"q", "c">>}

\* --skip lists: nothing, one name, any two names, or every stage
VatSkips ==
    {{}} \cup {{a, b} : a, b \in VatSkipNames}
         \cup {{VatStages[k] : k \in 1..Len(VatStages)}}

\* the parsed command line: --subjects (as the participants it lists),
\* --out-dir, --pet-dir, --reg-dir, --skip
VatCommandLines ==
    [subjects : VatSubjectFiles, out_dir : {S_out}, pet_dir : {<<"/", "p", "e", "t">>},
     reg_dir : {<<"/", "r", "e", "g">>}, skip : VatSkips]

\* the arguments of one vat_protocol call
VatRun(subjstring, out_dir, pet_dir, reg_dir, skip) ==
    [subjstring |-> subjstring, out_dir |-> out_dir, pet_dir |-> pet_dir,
     reg_dir |-> reg_dir, skip |-> skip]

\* the loop over real_files: the position of the first file os.path.exists
\* does not find, 0 when all are found
first_missing(present, n) ==
    IF \A k \in 1..n : k \in present THEN 0
    ELSE CHOOSE k \in 1..n : k \notin present /\ \A j \in 1..(k - 1) : j \in present

\* the vat_protocol call main is in
CurrentRun == call.runs[Len(call.runs)]

\* main() after parse_args and read_csv: nothing run yet
InitVat ==
    /\ step = default_threshold_cropping(EmptyDict).made.value
    /\ sender = default_moco_frames_above_mean(PyBool(FALSE), EmptyDict).made.value
    /\ last = [op |-> "start"]
    /\ raised = "none"
    /\ warned = FALSE
    /\ \E argv \in VatCommandLines :
           call = [fn |-> "main", argv |-> argv, i |-> 0, pc |-> "loop", at |-> 0,
                   missing |-> 0, site |-> << >>, runs |-> << >>]
    /\ trace = NoTrace
    /\ heap = NoHeap

\* main: the next pass of the loop picks the directories of the subject's
\* site and calls vat_protocol
MainCall ==
    /\ call.fn = "main" /\ call.pc = "loop"
    /\ call.i < Len(main_loop_subjects(call.argv.subjects))
    /\ LET sub == main_loop_subjects(call.argv.subjects)[call.i + 1]
           site == main_site_dirs(sub, call.site)
       IN  IF site = << >>
           THEN /\ call' = [call EXCEPT !.pc = "raised"]
                /\ raised' = "UnboundLocalError"
                /\ UNCHANGED trace
           ELSE /\ call' = [call EXCEPT !.pc = "check", !.at = 0, !.missing = 0,
                                        !.site = site,
                                        !.runs = @ \o <<VatRun(sub, call.argv.out_dir, site[1],
                                                               site[2], call.argv.skip)>>]
                /\ trace' = NoTrace
                /\ UNCHANGED raised
    /\ last' = [op |-> "call"]
    /\ UNCHANGED <<step, sender, warned, heap>>

\* main: the loop is over
MainReturn ==
    /\ call.fn = "main" /\ call.pc = "loop"
    /\ call.i >= Len(main_loop_subjects(call.argv.subjects))
    /\ call' = [call EXCEPT !.pc = "returned"]
    /\ last' = [op |-> "return"]
    /\ UNCHANGED <<step, sender, raised, warned, trace, heap>>

\* vat_protocol up to the file check: it returns when a file is not found
VatCheck ==
    /\ call.fn = "main" /\ call.pc = "check"
    /\ LET locals == vat_locals(CurrentRun.subjstring, CurrentRun.pet_dir, CurrentRun.reg_dir)
       IN  IF locals.raised # "none"
           THEN /\ call' = [call EXCEPT !.pc = "raised"]
                /\ raised' = locals.raised
                /\ last' = [op |-> "check", missing |-> 0]
           ELSE \E present \in SUBSET (1..Len(real_files(locals.value))) :
                    LET missing == first_missing(present, Len(real_files(locals.value)))
                    IN  /\ call' = IF missing = 0
                                   THEN [call EXCEPT !.pc = "stage", !.at = 1]
                                   ELSE [call EXCEPT !.pc = "loop", !.i = @ + 1,
                                                     !.missing = missing]
                        /\ last' = [op |-> "check", missing |-> missing]
                        /\ UNCHANGED raised
    /\ UNCHANGED <<step, sender, warned, trace, heap>>

\* vat_protocol, one stage: its paths and directories, then its calls unless
\* skipped; a call of the stage may raise, which ends the protocol and main
VatStage ==
    /\ call.fn = "main" /\ call.pc = "stage"
    /\ LET names == vat_locals(CurrentRun.subjstring, CurrentRun.pet_dir,
                               CurrentRun.reg_dir).value
           paths == vat_paths(names, CurrentRun.out_dir)
           name == VatStages[call.at]
           stage == vat_stage(name, names, paths, CurrentRun.skip)
           final == call.at = Len(VatStages)
       IN  \E failing \in 0..Len(stage.called) :
               /\ failing # 0 => stage.called[failing].callee # "os.makedirs"
               /\ trace' = trace \o stage.prepared
                               \o (IF failing = 0 THEN stage.called
                                   ELSE SubSeq(stage.called, 1, failing))
               /\ raised' = IF failing = 0 THEN "none" ELSE "Exception"
               /\ call' = [call EXCEPT
                              !.pc = IF failing # 0 THEN "raised"
                                     ELSE IF final THEN "loop" ELSE "stage",
                              !.at = IF failing = 0 /\ ~final THEN @ + 1 ELSE @,
                              !.i = IF failing = 0 /\ final THEN @ + 1 ELSE @]
               /\ last' = [op |-> "stage", name |-> name, failing |-> failing]
    /\ UNCHANGED <<step, sender, warned, heap>>

NextVat == MainCall \/ MainReturn \/ VatCheck \/ VatStage

SpecVat == InitVat /\ [][NextVat]_vars

\* the first call each stage makes, in the order of VatStages
StageOpeners ==
    <<"image_operations_4d.SimpleAutoImageCropper",
      "motion_corr.windowed_motion_corr_to_target",
      "register.register_pet",
      "segmentation_tools.vat_wm_ref_region",
      "image_operations_4d.write_tacs",
      "rtm_analysis.MultiTACRTMAnalysis",
      "graphical_analysis.MultiTACGraphicalAnalysis",
      "useful_functions.weighted_series_sum",
      "sgtm.Sgtm">>

\* the stages the current vat_protocol call has run, read off its calls
StagesRun ==
    LET opens(c) == \E k \in 1..Len(StageOpeners) : StageOpeners[k] = c.callee
        opened == SelectSeq(trace, opens)
    IN  [i \in 1..Len(opened) |->
            VatStages[CHOOSE k \in 1..Len(StageOpeners) : StageOpeners[k] = opened[i].callee]]

\* how many stages the current vat_protocol call has passed
StagesPassed ==
    IF call.pc = "stage" THEN call.at - 1
    ELSE IF call.pc = "raised" /\ last.op = "stage" THEN call.at
    ELSE IF call.pc \in {"loop", "returned"} /\ Len(call.runs) > 0 /\ call.missing = 0
    THEN Len(VatStages)
    ELSE 0

\* the first n stages without those named in skip, in the fixed order
StagesDue(n) ==
    LET due(name) == name \notin CurrentRun.skip
    IN  SelectSeq(SubSeq(VatStages, 1, n), due)

\* where in the trace the callee was first called
FirstCallOf(callee) ==
    CHOOSE n \in 1..Len(trace) :
        trace[n].callee = callee /\ \A m \in 1..(n - 1) : trace[m].callee # callee

\* the value a call of the current run passed under a keyword; << >> when
\* the callee was not called
PassedTo(callee, key) ==
    LET is(c) == c.callee = callee
        found == SelectSeq(trace, is)
    IN  IF Len(found) = 0 THEN << >> ELSE found[1].kwargs[key].v

\* which input of which stage is which output of its upstream stage, with
\* the path of that output written out
StageLinks(out_dir, sub_id, ses_id) ==
    LET pet(descriptors, suffix) ==
            BidsLikePath(out_dir, sub_id, ses_id, S_pet, descriptors, suffix, S_niigz)
        cropped == pet(<<<<<<"c", "r", "o", "p">>, <<"0", "0", "3">>>>>>, S_pet)
        moco == pet(<<<<<<"m", "o", "c", "o">>, <<"w", "i", "n", "d", "o", "w", "e", "d">>>>>>, S_pet)
        registered == pet(<<<<<<"m", "o", "c", "o">>, <<"w", "i", "n", "d", "o", "w", "e", "d">>>>, <<<<"s", "p", "a", "c", "e">>, <<"m", "p", "r">>>>>>, S_pet)
        roi == pet(<<<<S_desc, <<"R", "e", "f", "R", "e", "g", "i", "o", "n", "R", "O", "I">>>>>>, <<"s", "e", "g">>)
        segmentation == pet(<<<<S_desc, <<"R", "e", "f", "R", "e", "g", "i", "o", "n", "S", "e", "g", "m", "e", "n", "t", "a", "t", "i", "o", "n">>>>>>, <<"s", "e", "g">>)
        tacs == out_dir \o S_sep \o S_sub \o sub_id \o S_sep \o S_ses \o ses_id
                    \o S_sep \o S_tacs
        wss == pet(<<<<<<"s", "p", "a", "c", "e">>, <<"m", "p", "r">>>>, <<S_desc, <<"W", "S", "S">>>>>>, S_pet)
        suvr == pet(<<<<<<"s", "p", "a", "c", "e">>, <<"m", "p", "r">>>>, <<S_desc, <<"S", "U", "V", "R">>>>>>, S_pet)
        link(reader, key, writer, out, path) ==
            [reader |-> reader, key |-> key, writer |-> writer, out |-> out, path |-> path]
    IN  <<link("motion_corr.windowed_motion_corr_to_target", "input_image_path",
               "image_operations_4d.SimpleAutoImageCropper", "out_image_path", cropped),
          link("register.register_pet", "input_reg_image_path",
               "motion_corr.windowed_motion_corr_to_target", "out_image_path", moco),
          link("segmentation_tools.vat_wm_region_merge", "wm_ref_segmentation_path",
               "segmentation_tools.vat_wm_ref_region", "out_segmentation_path", roi),
          link("image_operations_4d.write_tacs", "input_image_path",
               "register.register_pet", "out_image_path", registered),
          link("image_operations_4d.write_tacs", "segmentation_image_path",
               "segmentation_tools.vat_wm_region_merge", "out_image_path", segmentation),
          link("rtm_analysis.MultiTACRTMAnalysis", "roi_tacs_dir",
               "image_operations_4d.write_tacs", "out_tac_dir", tacs),
          link("graphical_analysis.MultiTACGraphicalAnalysis", "roi_tacs_dir",
               "image_operations_4d.write_tacs", "out_tac_dir", tacs),
          link("useful_functions.weighted_series_sum", "input_image_4d_path",
               "register.register_pet", "out_image_path", registered),
          link("image_operations_4d.suvr", "input_image_path",
               "useful_functions.weighted_series_sum", "out_image_path", wss),
          link("image_operations_4d.suvr", "segmentation_image_path",
               "segmentation_tools.vat_wm_region_merge", "out_image_path", segmentation),
          link("sgtm.Sgtm", "input_image_path",
               "image_operations_4d.suvr", "out_image_path", suvr),
          link("sgtm.Sgtm", "segmentation_image_path",
               "segmentation_tools.vat_wm_region_merge", "out_image_path", segmentation)>>

C26_EveryParticipantOnce ==
    call.pc = "returned" =>
        /\ Len(call.runs) = Len(call.argv.subjects)
        /\ \A n \in 1..Len(call.runs) :
               /\ n <= Len(call.argv.subjects)
               /\ call.runs[n] = VatRun(call.argv.subjects[n], call.argv.out_dir,
                                        call.argv.pet_dir, call.argv.reg_dir,
                                        call.argv.skip)

============================================================================
